---------------------------- MODULE Spec2Model ----------------------------
(***************************************************************************)
(* Verification model of ansible-log-analysis (mtalvi/ansible-log-analysis). *)
(*                                                                         *)
(* Components, each with its own specification:                            *)
(*   Spec         one run of the diagnostic orchestrator graph             *)
(*                (src/src/alm/agents/graph.py, node.py, output_scheme.py) *)
(*   SpecQuery    one query() call of the retrieval engine on a loaded     *)
(*                index (src/src/alm/rag/query_pipeline.py)                *)
(*   SpecContext  one run of the context sub-graph                         *)
(*                (src/src/alm/agents/get_more_context_agent)              *)
(*   SpecMerge    the composition of the solution context, on every pair   *)
(*                of context texts (graph.py, get_more_context_node)       *)
(*   SpecLoki     the live-log path from its first node                    *)
(*                (src/src/alm/agents/loki_agent_node.py)                  *)
(*   SpecBuild    one build, save and load of the knowledge-base index,    *)
(*                for every knowledge base                                 *)
(*                (src/src/alm/rag/embed_and_index.py)                     *)
(*   SpecStore    the index files over rebuilds, interrupted saves, loads  *)
(*                and reconfiguration (embed_and_index.py,                 *)
(*                src/init_pipeline.py)                                    *)
(*   SpecCluster  one call of the clustering stage (node.py,               *)
(*                src/src/alm/agents/analizer/node.py)                     *)
(*   SpecBatch    one run of the batch pipeline                            *)
(*                (src/src/alm/pipeline/find_categories.py)                *)
(*   SpecArtifact refits and predicts on the persisted cluster model       *)
(*                (node.py, src/src/alm/utils/minio.py)                    *)
(*   SpecLookup   the knowledge lookups of one process                     *)
(*                (get_more_context_agent/node.py, rag_handler.py)         *)
(*   SpecExec     one run of the live-log query step and its agent         *)
(*                (loki_agent_node.py, src/src/alm/agents/loki_agent)      *)
(*   SpecTool     one call of a log-query tool on a log file               *)
(*                (src/src/alm/tools/loki_tools.py, mcp/mcp_client.py)     *)
(* A component that is not running is parked at "idle".                    *)
(*                                                                         *)
(* Conventions.                                                            *)
(*   - Python None is the string NONE; an Optional[bool] holds NONE,       *)
(*     "True" or "False".                                                  *)
(*   - A language-model call is an input of the step that makes it: it     *)
(*     replies with a value, or fails in transport, or replies with a      *)
(*     value its structured-output schema rejects.                         *)
(*   - A Python call binds its arguments to the parameters of the function *)
(*     of that name under src/; a call that cannot bind raises TypeError   *)
(*     before the callee runs.                                             *)
(*   - An exception that no handler catches leaves the graph run: the      *)
(*     position becomes "raised" and ainvoke re-raises to its caller.      *)
(***************************************************************************)
EXTENDS Integers, Sequences, FiniteSets, TLC

VARIABLES
    pc,        \* orchestrator: "START", the node about to run, "END" or "raised"
    alert,     \* orchestrator: the GrafanaAlert graph state
    trace,     \* orchestrator: the nodes that have run, in order (history)
    llmLog,    \* orchestrator: the language-model replies so far (history)
    raisedBy,  \* orchestrator: the exception that ended the run, or NONE
    qPc,       \* query pipeline: "idle", "ready", "returned" or "raised"
    qIndex,    \* query pipeline: the loaded index, as the similarity of each
               \*   indexed vector (by position) to the query text
    qArgs,     \* query pipeline: the overrides passed to query()
    qResponse, \* query pipeline: the QueryResponse returned, or NoResponse
    cPc,       \* context sub-graph: the node to run next, "END", "raised", "idle"
    cState,    \* context sub-graph: the ContextAgentState
    cTrace,    \* context sub-graph: the nodes entered so far, in order
    cDecision, \* context sub-graph: the classification the router LLM gave
    rag,       \* the module-level RAG singleton (_rag_enabled, _rag_pipeline)
    cLookup,   \* context sub-graph: what the knowledge-base lookup did
    mPc,       \* context merge: "idle", "ready" or "merged"
    mIn,       \* context merge: the two context texts the sub-graph returned
    mOut,      \* context merge: the contextForStepByStepSolution composed
    lPc,       \* live-log path: the node to run next, "raised" or "idle"
    lState,    \* live-log path: the alert fields the nodes read
    lCommand,  \* live-log path: the Command the last node returned
    lRaisedBy, \* live-log path: the exception that ended the run, or NONE
    corpus,    \* index store: the knowledge-base entries, in grouping order
    cfgModel,  \* index store: the configured embedding model name
    sim,       \* index store: the similarity of each entry's vector to the
               \*   query text
    indexFile, \* index store: the index file on disk
    metaFile,  \* index store: the metadata file on disk
    writer,    \* index store: the process that builds and saves the index
    loader,    \* index store: the embedder of a serving query pipeline
    served,    \* index store: what the last served query was scored against
    kPc,       \* clustering: "idle", "ready", "returned" or "raised"
    kIn,       \* clustering: the function called, its logs, the configured
               \*   algorithm and the labels that algorithm fits
    kOut,      \* clustering: the labels returned, the error raised, and
               \*   whether the fitted model was saved
    bPc,       \* batch pipeline: the stage _pipeline is at
    bLabels,   \* batch pipeline: cluster_labels, one per alert
    bAlerts,   \* batch pipeline: the alerts and their generated fields
    bTasks,    \* batch pipeline: the tasks of the gather being awaited
    bLists,    \* batch pipeline: log_summaries, log_expert_calssification,
               \*   step_by_step_solutions
    bCalls,    \* batch pipeline: per generation step, the alerts it was
               \*   called for
    bDb,       \* batch pipeline: the alerts committed to the database
    modelFile,   \* cluster model: the chunks of the file at
                 \*   TMP_CLUSTER_MODEL_PATH, each tagged with its refit
    modelObject, \* cluster model: the refit whose model the bucket holds
    refit,       \* cluster model: the refit job's position and count
    predict,     \* cluster model: the predict's position and what it read
    minioBucket, \* cluster model: whether MINIO_BUCKET_NAME is set
    lkRag,     \* knowledge lookup: the RAG singleton of the process
    lkCalls,   \* knowledge lookup: get_cheat_sheet_context calls made
    lkLoads,   \* knowledge lookup: index loads attempted (history)
    lkOut,     \* knowledge lookup: what the last call returned
    ePc,       \* live-log query: where loki_execute_query_node is, or "idle"
    eState,    \* live-log query: lokiUserRequest, additionalContextFromLoki
    eCalls,    \* live-log query: the tools the executor ran for the request
    eResult,   \* live-log query: the LokiAgentOutput stored, or NoAgentOutput
    eEarlier,  \* live-log query: additionalContextFromLoki as the step
               \*   found it (history)
    tPc,       \* log-query tools: "idle", "ready" or "returned"
    tFile,     \* log-query tools: the lines of the log file in the store,
               \*   oldest first
    tArgs,     \* log-query tools: log_message / text and lines_above
    tCall,     \* log-query tools: the tool that ran, what the store did, and
               \*   the results of its inner queries (history)
    tOut       \* log-query tools: the LogToolOutput returned

orchVars == <<pc, alert, trace, llmLog, raisedBy>>

queryVars == <<qPc, qIndex, qArgs, qResponse>>

ctxVars == <<cPc, cState, cTrace, cDecision, rag, cLookup>>

mergeVars == <<mPc, mIn, mOut>>

lokiVars == <<lPc, lState, lCommand, lRaisedBy>>

storeVars ==
    <<corpus, cfgModel, sim, indexFile, metaFile, writer, loader, served>>

clusterVars == <<kPc, kIn, kOut>>

batchVars == <<bPc, bLabels, bAlerts, bTasks, bLists, bCalls, bDb>>

artifactVars == <<modelFile, modelObject, refit, predict, minioBucket>>

lookupVars == <<lkRag, lkCalls, lkLoads, lkOut>>

execVars == <<ePc, eState, eCalls, eResult, eEarlier>>

toolVars == <<tPc, tFile, tArgs, tCall, tOut>>

vars ==
    <<orchVars, queryVars, ctxVars, mergeVars, lokiVars, storeVars,
      clusterVars, batchVars, artifactVars, lookupVars, execVars,
      toolVars>>

\* What a step of one component leaves alone: the other components.
notOrch ==
    <<queryVars, ctxVars, mergeVars, lokiVars, storeVars, clusterVars,
      batchVars, artifactVars, lookupVars, execVars, toolVars>>
notQuery ==
    <<orchVars, ctxVars, mergeVars, lokiVars, storeVars, clusterVars,
      batchVars, artifactVars, lookupVars, execVars, toolVars>>
notCtx ==
    <<orchVars, queryVars, mergeVars, lokiVars, storeVars, clusterVars,
      batchVars, artifactVars, lookupVars, execVars, toolVars>>
notMerge ==
    <<orchVars, queryVars, ctxVars, lokiVars, storeVars, clusterVars,
      batchVars, artifactVars, lookupVars, execVars, toolVars>>
notLoki ==
    <<orchVars, queryVars, ctxVars, mergeVars, storeVars, clusterVars,
      batchVars, artifactVars, lookupVars, execVars, toolVars>>
notCluster ==
    <<orchVars, queryVars, ctxVars, mergeVars, lokiVars, storeVars,
      batchVars, artifactVars, lookupVars, execVars, toolVars>>
notBatch ==
    <<orchVars, queryVars, ctxVars, mergeVars, lokiVars, storeVars,
      clusterVars, artifactVars, lookupVars, execVars, toolVars>>
notArtifact ==
    <<orchVars, queryVars, ctxVars, mergeVars, lokiVars, storeVars,
      clusterVars, batchVars, lookupVars, execVars, toolVars>>
notStore ==
    <<orchVars, queryVars, ctxVars, mergeVars, lokiVars, clusterVars,
      batchVars, artifactVars, lookupVars, execVars, toolVars>>
notLookup ==
    <<orchVars, queryVars, ctxVars, mergeVars, lokiVars, storeVars,
      clusterVars, batchVars, artifactVars, execVars, toolVars>>
notExec ==
    <<orchVars, queryVars, ctxVars, mergeVars, lokiVars, storeVars,
      clusterVars, batchVars, artifactVars, lookupVars, toolVars>>
notTool ==
    <<orchVars, queryVars, ctxVars, mergeVars, lokiVars, storeVars,
      clusterVars, batchVars, artifactVars, lookupVars, execVars>>

NONE == "None"

-----------------------------------------------------------------------------
(* Inputs of the orchestrator.                                             *)

\* Raw log bodies posted to the orchestrator (routes/grafana_alert.py:101).
LogMessages == {"log_a", "log_b"}

\* Summaries the summarize call can reply with (SummarySchema.summary: str).
Summaries == {"summary_1", "summary_2"}

\* Cluster labels the persisted cluster model can predict, as str(label).
ClusterLabels == {"0", "1"}

\* ClassifySchema.category: the closed enumeration of expert categories.
Categories ==
    { "Cloud Infrastructure / AWS Engineers",
      "Kubernetes / OpenShift Cluster Admins",
      "DevOps / CI/CD Engineers (Ansible + Automation Platform)",
      "Networking / Security Engineers",
      "System Administrators / OS Engineers",
      "Application Developers / GitOps / Platform Engineers",
      "Identity & Access Management (IAM) Engineers",
      "Other / Miscellaneous" }

CatchAllCategory == "Other / Miscellaneous"

\* Category texts a model can reply with that are outside the enumeration.
BadCategories == {"Database Administrators", "other"}

\* RouterStepByStepSolutionSchema.suggestion.
RouterSuggestions == {"straightforward", "complex"}

\* How a language-model call can fail.
TransportError == "transport_error"
ValidationError == "validation_error"
TypeError == "TypeError"
ClusterModelError == "cluster_model_error"

LlmFailures == {TransportError, ValidationError}


\* What a model can reply to each structured-output call; NoReply stands for
\* the call failing in transport (no reply at all).
NoReply == "no_reply"
SummaryReplies == Summaries \cup {NONE, NoReply}
CategoryReplies == Categories \cup BadCategories \cup {NoReply}
RouterReplies == RouterSuggestions \cup {NoReply}

-----------------------------------------------------------------------------
(* Generation steps (src/src/alm/agents/node.py).                          *)

\* SummarySchema: summary is a str.
SummarySchemaAccepts(v) == v \in Summaries

\* Mutant of ClassifySchemaAccepts: category declared as a plain str.
ClassifySchemaAccepts_AnyStr(v) == TRUE

\* ClassifySchema: category is a Literal of the eight categories.
ClassifySchemaAccepts(v) == v \in Categories

\* RouterStepByStepSolutionSchema: suggestion is a Literal of two values.
RouterSchemaAccepts(v) == v \in RouterSuggestions

\* llm.with_structured_output(Schema).ainvoke(...): the parsed value, or an
\* exception when the transport fails or the schema rejects the reply.
StructuredOutput(reply, accepted) ==
    IF reply = NoReply
    THEN [ok |-> FALSE, err |-> TransportError, value |-> NONE]
    ELSE IF ~accepted
         THEN [ok |-> FALSE, err |-> ValidationError, value |-> NONE]
         ELSE [ok |-> TRUE, err |-> NONE, value |-> reply]

\* summarize_log(log, llm): one call, no exception handling, no retry.
summarize_log(reply) == StructuredOutput(reply, SummarySchemaAccepts(reply))

\* classify_log(log_summary, llm): one call, no exception handling, no retry.
classify_log(reply) == StructuredOutput(reply, ClassifySchemaAccepts(reply))

\* router_step_by_step_solution(log_summary, log, llm): three parameters.
RouterParams == 3
router_step_by_step_solution(reply) ==
    StructuredOutput(reply, RouterSchemaAccepts(reply))

\* A positional call binds when it passes as many arguments as the function
\* has parameters (none of these functions has defaults or *args).
CallBinds(passed, params) == passed = params

\* infer_cluster_log(log): str(label) of the persisted model's prediction, or
\* the exception of joblib.load / predict.
infer_cluster_log(r) ==
    IF r \in ClusterLabels
    THEN [ok |-> TRUE, err |-> NONE, value |-> r]
    ELSE [ok |-> FALSE, err |-> ClusterModelError, value |-> NONE]

-----------------------------------------------------------------------------
(* Retrieval engine, query side (src/src/alm/rag/query_pipeline.py).       *)
(* Similarities are in tenths: 6 stands for 0.6.                           *)

\* Bounds of the query model.
MaxIndexSize == 3
MaxTopK == 2
MaxTopN == 2

\* Similarities an indexed vector can have to the query text.
Scores == {4, 6, 9}

\* AnsibleErrorQueryPipeline.__init__ defaults.
DefaultTopK == 10
DefaultTopN == 3
DefaultThreshold == 6

\* An Optional argument: omitted (None) or given.
Omitted == <<>>
Given(v) == <<v>>

\* Python's `arg or default`: the default when arg is None or falsy (0, 0.0).
OrDefault(arg, default) ==
    IF arg = Omitted THEN default
    ELSE IF arg[1] = 0 THEN default ELSE arg[1]

\* The positions of an index of n vectors: 0 .. n-1.
Positions(scores) == 0 .. (Len(scores) - 1)

\* The best of the positions in `left`: highest similarity, lowest position
\* among equals.
BestOf(scores, left) ==
    CHOOSE p \in left :
        \A o \in left :
            \/ scores[p + 1] > scores[o + 1]
            \/ (scores[p + 1] = scores[o + 1] /\ p <= o)

\* faiss IndexFlatIP.search(query_vector, k): k (similarity, position) pairs
\* by decreasing inner product, padded with position -1 when the index holds
\* fewer than k vectors.
RECURSIVE FaissSearch(_, _, _)
FaissSearch(scores, left, k) ==
    IF k = 0 THEN <<>>
    ELSE IF left = {}
         THEN <<[idx |-> -1, similarity |-> -1]>>
                 \o FaissSearch(scores, left, k - 1)
         ELSE LET p == BestOf(scores, left) IN
              <<[idx |-> p, similarity |-> scores[p + 1]]>>
                 \o FaissSearch(scores, left \ {p}, k - 1)

\* _similarity_search: the ErrorResult of every hit, skipping the -1 padding.
_similarity_search(scores, top_k) ==
    LET hits == FaissSearch(scores, Positions(scores), top_k)
        real(h) == h.idx # -1
        result(h) == [error_pos |-> h.idx, similarity_score |-> h.similarity]
        kept == SelectSeq(hits, real)
    IN [i \in DOMAIN kept |-> result(kept[i])]

\* Mutant of _filter_by_threshold: falls back to the unfiltered candidates.
_filter_by_threshold_unfiltered(candidates, threshold) == candidates

\* _filter_by_threshold: the candidates with similarity_score >= threshold.
_filter_by_threshold(candidates, threshold) ==
    LET passes(r) == r.similarity_score >= threshold
    IN SelectSeq(candidates, passes)

\* _rank_and_select: filtered_results[:top_n] (top_n >= 0).
_rank_and_select(filtered_results, top_n) ==
    SubSeq(filtered_results, 1,
           IF top_n < Len(filtered_results) THEN top_n
           ELSE Len(filtered_results))

\* AnsibleErrorQueryPipeline.query once the query text is embedded.
query(scores, top_k, top_n, similarity_threshold) ==
    LET k == OrDefault(top_k, DefaultTopK)
        n == OrDefault(top_n, DefaultTopN)
        t == OrDefault(similarity_threshold, DefaultThreshold)
        candidates == _similarity_search(scores, k)
        filtered_results == _filter_by_threshold(candidates, t)
        final_results == _rank_and_select(filtered_results, n)
    IN [ results |-> final_results,
         candidates |-> candidates,
         metadata |-> [ num_results |-> Len(final_results),
                        num_candidates |-> Len(candidates),
                        num_filtered |-> Len(filtered_results),
                        top_k |-> k, top_n |-> n,
                        similarity_threshold |-> t ] ]

NoResponse == [results |-> <<>>, candidates |-> <<>>, metadata |-> <<>>]

\* The indexes a pipeline can have loaded, seen from one query text.
RECURSIVE SeqsUpTo(_, _)
SeqsUpTo(S, n) ==
    IF n = 0 THEN {<<>>}
    ELSE LET shorter == SeqsUpTo(S, n - 1)
         IN shorter \cup {Append(q, x) : q \in shorter, x \in S}

Indexes == SeqsUpTo(Scores, MaxIndexSize)

OptionalArgs(S) == {Omitted} \cup {Given(v) : v \in S}

QueryIdle ==
    /\ qPc = "idle"
    /\ qIndex = <<>>
    /\ qArgs = [top_k |-> Omitted, top_n |-> Omitted,
                similarity_threshold |-> Omitted]
    /\ qResponse = NoResponse

QueryInit ==
    /\ qPc = "ready"
    /\ qIndex \in Indexes
    /\ qArgs \in [ top_k : OptionalArgs(0 .. MaxTopK),
                   top_n : OptionalArgs(0 .. MaxTopN),
                   similarity_threshold : OptionalArgs({0, 5, 9}) ]
    /\ qResponse = NoResponse

\* One call of query(): the embedding client encodes the text or raises
\* (query has no exception handling), then search, filter, select.
QueryCall ==
    /\ qPc = "ready"
    /\ \E embedded \in BOOLEAN :
         IF embedded
         THEN /\ qPc' = "returned"
              /\ qResponse' = query(qIndex, qArgs.top_k, qArgs.top_n,
                                    qArgs.similarity_threshold)
         ELSE /\ qPc' = "raised"
              /\ qResponse' = qResponse
    /\ UNCHANGED <<qIndex, qArgs>>
    /\ UNCHANGED notQuery

-----------------------------------------------------------------------------
(* Context sub-graph (src/src/alm/agents/get_more_context_agent).          *)
(* A Python value that the code compares or tests across types is a record *)
(* of its type and payload; a str is its sequence of lines, "" is no line. *)

PyNone == [type |-> "NoneType", v |-> <<>>]
PyStr(lines) == [type |-> "str", v |-> lines]
PyTuple(first, second) == [type |-> "tuple", v |-> <<first, second>>]

\* Python ==: values of different types are unequal.
PyEq(a, b) == a.type = b.type /\ a.v = b.v

\* Python truthiness of an Optional[str].
Truthy(x) == x.type # "NoneType" /\ x.v # <<>>

NeedMore == "need_more_context_from_loki_db"
NoNeedMore == "no_need_more_context_from_loki_db"
LokiDecisions == {NeedMore, NoNeedMore}
LokiRouterReplies == LokiDecisions \cup {"maybe", NoReply}

LokiRouterSchemaAccepts(v) == v \in LokiDecisions

\* loki_router: one structured-output call, validated as LokiRouterSchema.
loki_router(reply) ==
    LET out == StructuredOutput(reply, LokiRouterSchemaAccepts(reply))
    IN IF out.ok
       THEN [ok |-> TRUE, err |-> NONE,
             value |-> [reasoning |-> "because", classification |-> out.value]]
       ELSE [ok |-> FALSE, err |-> out.err,
             value |-> [reasoning |-> NONE, classification |-> NONE]]

\* `reasoning, classification = <LokiRouterSchema>`: unpacking iterates the
\* model, which yields one (field name, value) pair per field.
UnpackRouterResult(model) ==
    [ reasoning |-> PyTuple("reasoning", model.reasoning),
      classification |-> PyTuple("classification", model.classification) ]

\* Mutant of LokiRouterGoto: the live-log step is entered whatever was decided.
LokiRouterGoto_Always(classification) == "loki_sub_agent"

\* The goto of loki_router_node.
LokiRouterGoto(classification) ==
    IF PyEq(classification, PyStr(<<NeedMore>>))
    THEN "loki_sub_agent" ELSE "END"

\* The RAG singleton. `index` is the index on disk, and the one a loaded
\* pipeline holds.
RagStates ==
    { r \in [ _rag_enabled : {"None", "True", "False"},
              _rag_pipeline : {"None", "pipeline"},
              index : Indexes ] :
        (r._rag_pipeline = "pipeline") <=> (r._rag_enabled = "True") }

\* _initialize_rag_pipeline that leaves the flag unset after a failed load.
_initialize_rag_pipeline_retrying(r, env_enabled, load_ok) ==
    IF r._rag_enabled # "None" THEN r
    ELSE IF ~env_enabled
         THEN [r EXCEPT !._rag_enabled = "False", !._rag_pipeline = "None"]
    ELSE IF load_ok
         THEN [r EXCEPT !._rag_enabled = "True", !._rag_pipeline = "pipeline"]
    ELSE r

\* _initialize_rag_pipeline: returns the singleton after the call.
_initialize_rag_pipeline(r, env_enabled, load_ok) ==
    IF r._rag_enabled # "None" THEN r
    ELSE IF ~env_enabled
         THEN [r EXCEPT !._rag_enabled = "False", !._rag_pipeline = "None"]
    ELSE IF load_ok
         THEN [r EXCEPT !._rag_enabled = "True", !._rag_pipeline = "pipeline"]
    ELSE [r EXCEPT !._rag_enabled = "False", !._rag_pipeline = "None"]

NoMatchText == <<"No matching solutions found in knowledge base.">>

\* _format_rag_results: the text of a QueryResponse, line by line.
_format_rag_results(response) ==
    IF response.results = <<>> THEN NoMatchText
    ELSE LET block(i) ==
                <<"### Error " \o ToString(i),
                  "**Confidence Score:** "
                      \o ToString(response.results[i].similarity_score),
                  "---">>
             RECURSIVE blocks(_)
             blocks(i) ==
                IF i > Len(response.results) THEN <<>>
                ELSE block(i) \o blocks(i + 1)
         IN <<"## Relevant Error Solutions from Knowledge Base">> \o blocks(1)

\* get_cheat_sheet_context, given the singleton after initialisation: "" when
\* there is no pipeline or the query raises, else the formatted response.
get_cheat_sheet_context(r, embedded) ==
    IF r._rag_pipeline = "None" THEN <<>>
    ELSE IF ~embedded THEN <<>>
    ELSE _format_rag_results(query(r.index, Omitted, Omitted, Omitted))

NewContextAgentState(summary, log) ==
    [ log_summary |-> summary, log |-> log,
      cheat_sheet_context |-> PyNone, reasoning |-> PyNone,
      classification |-> PyNone, loki_context |-> PyNone ]

NotLookedUp == [queried |-> FALSE, response |-> NoResponse]

CtxIdle ==
    /\ cPc = "idle"
    /\ cState = NewContextAgentState("summary_1", "log_a")
    /\ cTrace = <<>>
    /\ cDecision = NONE
    /\ rag = [_rag_enabled |-> "None", _rag_pipeline |-> "None",
              index |-> <<>>]
    /\ cLookup = NotLookedUp

CtxInit ==
    /\ cPc = "cheat_sheet_context_node"
    /\ cState \in {NewContextAgentState(s, l) :
                      s \in Summaries, l \in LogMessages}
    /\ cTrace = <<>>
    /\ cDecision = NONE
    /\ rag \in RagStates
    /\ cLookup = NotLookedUp

cheat_sheet_context_node ==
    /\ cPc = "cheat_sheet_context_node"
    /\ cTrace' = Append(cTrace, "cheat_sheet_context_node")
    /\ \E env_enabled \in BOOLEAN, load_ok \in BOOLEAN, embedded \in BOOLEAN :
         LET r == _initialize_rag_pipeline(rag, env_enabled, load_ok)
             queried == r._rag_pipeline = "pipeline" /\ embedded
         IN /\ rag' = r
            /\ cLookup' =
                 IF queried
                 THEN [queried |-> TRUE,
                       response |-> query(r.index, Omitted, Omitted, Omitted)]
                 ELSE NotLookedUp
            /\ cState' = [cState EXCEPT !.cheat_sheet_context =
                             PyStr(get_cheat_sheet_context(r, embedded))]
    /\ cPc' = "loki_router_node"
    /\ UNCHANGED cDecision
    /\ UNCHANGED notCtx

loki_router_node ==
    /\ cPc = "loki_router_node"
    /\ cTrace' = Append(cTrace, "loki_router_node")
    /\ \E reply \in LokiRouterReplies :
         LET out == loki_router(reply) IN
         IF out.ok
         THEN LET got == UnpackRouterResult(out.value) IN
              /\ cDecision' = out.value.classification
              /\ cPc' = LokiRouterGoto(got.classification)
              /\ cState' = [cState EXCEPT
                               !.reasoning = got.reasoning,
                               !.classification = got.classification]
         ELSE /\ cDecision' = cDecision
              /\ cPc' = "raised"
              /\ cState' = cState
    /\ UNCHANGED <<rag, cLookup>>
    /\ UNCHANGED notCtx

\* loki_sub_agent: a placeholder that sets loki_context to None. No transition
\* of the sub-graph enters it, so it is not part of CtxNext.
loki_sub_agent ==
    /\ cPc = "loki_sub_agent"
    /\ cTrace' = Append(cTrace, "loki_sub_agent")
    /\ cState' = [cState EXCEPT !.loki_context = PyNone]
    /\ cPc' = "END"
    /\ UNCHANGED <<cDecision, rag, cLookup>>
    /\ UNCHANGED notCtx

-----------------------------------------------------------------------------
(* Knowledge lookups of one process: a sequence of get_cheat_sheet_context *)
(* calls on the module-level singleton. The function has no await inside,  *)
(* so on one event loop each call runs from start to end as one step.      *)

\* Bounds of the lookup model.
MaxLookups == 3

\* The singleton of a process that has made no lookup yet.
FreshRag(index) ==
    [_rag_enabled |-> "None", _rag_pipeline |-> "None", index |-> index]

NoLookupOut == [context |-> <<>>, used_pipeline |-> FALSE, raised |-> FALSE]

LookupIdle ==
    /\ lkRag = FreshRag(<<>>)
    /\ lkCalls = 0
    /\ lkLoads = 0
    /\ lkOut = NoLookupOut

LookupInit ==
    /\ lkRag \in {FreshRag(index) : index \in Indexes}
    /\ lkCalls = 0
    /\ lkLoads = 0
    /\ lkOut = NoLookupOut

\* One get_cheat_sheet_context call. A load is attempted when the flag is
\* unset and RAG_ENABLED allows it: AnsibleErrorQueryPipeline(...) is
\* constructed, which loads the index or raises.
lookup_call ==
    /\ lkCalls < MaxLookups
    /\ \E env_enabled \in BOOLEAN, load_ok \in BOOLEAN, embedded \in BOOLEAN :
         LET r == _initialize_rag_pipeline(lkRag, env_enabled, load_ok) IN
         /\ lkRag' = r
         /\ lkLoads' = IF lkRag._rag_enabled = "None" /\ env_enabled
                       THEN lkLoads + 1 ELSE lkLoads
         /\ lkOut' = [ context |-> get_cheat_sheet_context(r, embedded),
                       used_pipeline |-> r._rag_pipeline # "None",
                       raised |-> FALSE ]
    /\ lkCalls' = lkCalls + 1
    /\ UNCHANGED notLookup

-----------------------------------------------------------------------------
(* Composition of the solution context (get_more_context_node,             *)
(* src/src/alm/agents/graph.py:99-107).                                    *)

\* f-string interpolation of an Optional[str]: None prints as "None".
Interpolate(x) == IF x.type = "NoneType" THEN <<"None">> ELSE x.v

CheatSheetHeader == "Context from cheat sheet:"
LokiHeader == "Context logs from loki:"

\* graph.py:100-102.
CheatSheetBlock(cheat_sheet_context) ==
    <<CheatSheetHeader>> \o Interpolate(cheat_sheet_context)

\* graph.py:103-107: the context handed to solution synthesis.
MergeContext(loki_context, cheat_sheet_context) ==
    IF Truthy(loki_context)
    THEN <<LokiHeader>> \o Interpolate(loki_context) \o <<"">>
             \o CheatSheetBlock(cheat_sheet_context)
    ELSE CheatSheetBlock(cheat_sheet_context)

\* Texts the live-log path can hand back: log lines, "" or None.
LogLines == {"log line 1", "log line 2"}
MaxLogLines == 2
LokiContexts == {PyNone} \cup {PyStr(t) : t \in SeqsUpTo(LogLines, MaxLogLines)}

\* Texts the knowledge-base lookup can hand back: None (never set), "", the
\* no-match text, or the formatted results of a query.
CheatSheetContexts ==
    {PyNone, PyStr(<<>>)}
        \cup {PyStr(_format_rag_results(
                        query(scores, Omitted, Omitted, Omitted))) :
                 scores \in Indexes}

NoContext == <<>>

MergeIdle ==
    /\ mPc = "idle"
    /\ mIn = [loki_context |-> PyNone, cheat_sheet_context |-> PyNone]
    /\ mOut = NoContext

MergeInit ==
    /\ mPc = "ready"
    /\ mIn \in [ loki_context : LokiContexts,
                 cheat_sheet_context : CheatSheetContexts ]
    /\ mOut = NoContext

MergeCall ==
    /\ mPc = "ready"
    /\ mOut' = MergeContext(mIn.loki_context, mIn.cheat_sheet_context)
    /\ mPc' = "merged"
    /\ UNCHANGED mIn
    /\ UNCHANGED notMerge

-----------------------------------------------------------------------------
(* The live-log path, first node (src/src/alm/agents/loki_agent_node.py).  *)

AttributeError == "AttributeError"

LogStreams == {"stream_a", "stream_b"}
MissingDataRequests == {"logs one hour before", "logs of the same host"}
IdentifyReplies == MissingDataRequests \cup {NONE, NoReply}

IdentifyMissingDataSchemaAccepts(v) == v \in MissingDataRequests

\* identify_missing_data: a log_stream that is not a dict is used as it is,
\* and None has no model_dump_json; then one structured-output call.
identify_missing_data(log_stream, reply) ==
    IF log_stream = NONE
    THEN [ok |-> FALSE, err |-> AttributeError, value |-> NONE]
    ELSE StructuredOutput(reply, IdentifyMissingDataSchemaAccepts(reply))

NoCommand == [goto |-> NONE, field |-> NONE, value |-> NONE]

LokiIdle ==
    /\ lPc = "idle"
    /\ lState = [logSummary |-> "summary_1", logMessage |-> "log_a",
                 expertClassification |-> NONE, logStream |-> NONE]
    /\ lCommand = NoCommand
    /\ lRaisedBy = NONE

LokiInit ==
    /\ lPc = "identify_missing_log_data_node"
    /\ lState \in [ logSummary : Summaries,
                    logMessage : LogMessages,
                    expertClassification : Categories \cup {NONE},
                    logStream : LogStreams \cup {NONE} ]
    /\ lCommand = NoCommand
    /\ lRaisedBy = NONE

identify_missing_log_data_node ==
    /\ lPc = "identify_missing_log_data_node"
    /\ \E reply \in IdentifyReplies :
         LET user_request == identify_missing_data(lState.logStream, reply) IN
         IF user_request.ok
         THEN /\ lPc' = "loki_execute_query_node"
              /\ lCommand' = [goto |-> "loki_execute_query_node",
                              field |-> "lokiUserRequest",
                              value |-> user_request.value]
              /\ lRaisedBy' = lRaisedBy
         ELSE /\ lPc' = "raised"
              /\ lCommand' = lCommand
              /\ lRaisedBy' = [node |-> "identify_missing_log_data_node",
                               err |-> user_request.err]
    /\ UNCHANGED lState
    /\ UNCHANGED notLoki

-----------------------------------------------------------------------------
(* The live-log query step (src/src/alm/agents/loki_agent_node.py,         *)
(* src/src/alm/agents/loki_agent/graph.py) and the log-query agent          *)
(* (src/src/alm/agents/loki_agent/agent.py).                                *)

\* LOKI_TOOLS, by name.
ToolNames ==
    {"get_logs_by_file_name", "search_logs_by_text", "get_log_lines_above"}

\* Tool calls one reply of the chat model can carry.
MaxToolCalls == 2

\* What the chat model replies in the one iteration the executor allows: a
\* final answer without a tool call (<<>>), one tool call, or several tool
\* calls in the same message; or the call raises.
AgentTurns ==
    {[raised |-> FALSE, tool_calls |-> c] :
        c \in SeqsUpTo(ToolNames, MaxToolCalls)}
        \cup {[raised |-> TRUE, tool_calls |-> <<>>]}

\* LogEntry: timestamps are ranks, messages are log lines.
MaxTimestamp == 2
LogEntries == [timestamp : 1..MaxTimestamp, message : LogLines]

\* LogToolOutput, as far as the step reads it. Every tool answers with one.
ToolOutputs ==
    {[status |-> "success", logs |-> l] : l \in SeqsUpTo(LogEntries, MaxLogLines)}
        \cup {[status |-> "error", logs |-> <<>>]}

\* sorted(label_logs, key=parse_timestamp): stable, ascending.
RECURSIVE SortedFrom(_, _)
SortedFrom(logs, t) ==
    IF t > MaxTimestamp THEN <<>>
    ELSE SelectSeq(logs, LAMBDA l : l.timestamp = t) \o SortedFrom(logs, t + 1)

\* f"{readable_timestamp} - {log.message}"
RenderedLine(l) ==
    CASE l.timestamp = 1 /\ l.message = "log line 1" -> "t1 - log line 1"
      [] l.timestamp = 1 /\ l.message = "log line 2" -> "t1 - log line 2"
      [] l.timestamp = 2 /\ l.message = "log line 1" -> "t2 - log line 1"
      [] OTHER -> "t2 - log line 2"

\* build_log_context: "" for no logs; otherwise the labels header (all
\* entries of the model carry the same labels) and the sorted lines.
build_log_context(logs) ==
    IF logs = <<>> THEN <<>>
    ELSE <<"", "====", "Labels: ", "====">>
            \o [i \in 1..Len(logs) |-> RenderedLine(SortedFrom(logs, 1)[i])]

NoAgentOutput == [status |-> NONE, agent_result |-> [status |-> NONE, logs |-> <<>>]]

\* The LokiAgentOutput of every failure path: status error, no logs.
ErrorAgentOutput ==
    [status |-> "error", agent_result |-> [status |-> "error", logs |-> <<>>]]

\* AgentExecutor(max_iterations=1).ainvoke: the executor plans once and runs
\* every tool call of that one reply; intermediate_steps has one step per call.
IntermediateSteps(turn) == IF turn.raised THEN <<>> ELSE turn.tool_calls

\* LokiQueryAgent.query_logs: the output of the last step, or an error output
\* when the executor raised or no step was taken.
query_logs(turn, last_output) ==
    IF turn.raised \/ IntermediateSteps(turn) = <<>>
    THEN ErrorAgentOutput
    ELSE [status |-> "success", agent_result |-> last_output]

\* `if old_loki_context and additional_context: old + "\n\n" + additional`.
JoinedContext(old_loki_context, additional_context) ==
    IF Truthy(old_loki_context) /\ additional_context # <<>>
    THEN PyStr(old_loki_context.v \o <<"">> \o additional_context)
    ELSE PyStr(additional_context)

ExecIdle ==
    /\ ePc = "idle"
    /\ eState = [lokiUserRequest |-> NONE, additionalContextFromLoki |-> PyNone]
    /\ eCalls = <<>>
    /\ eResult = NoAgentOutput
    /\ eEarlier = PyNone

ExecInit ==
    /\ ePc = "loki_execute_query_node"
    /\ eState \in [ lokiUserRequest : MissingDataRequests \cup {NONE},
                    additionalContextFromLoki : LokiContexts ]
    /\ eCalls = <<>>
    /\ eResult = NoAgentOutput
    /\ eEarlier = eState.additionalContextFromLoki

\* loki_execute_query_node up to the await: without a user request, or when
\* get_loki_agent() raises, the except branch stores an error output and
\* leaves additionalContextFromLoki out of the update.
loki_execute_query_node ==
    /\ ePc = "loki_execute_query_node"
    /\ \E agent_built \in BOOLEAN :
         IF eState.lokiUserRequest # NONE /\ agent_built
         THEN /\ ePc' = "query_logs"
              /\ eResult' = eResult
         ELSE /\ ePc' = "END"
              /\ eResult' = ErrorAgentOutput
    /\ UNCHANGED <<eState, eCalls, eEarlier>>
    /\ UNCHANGED notExec

\* `result = await agent.query_logs(user_request, context)`.
agent_query_logs ==
    /\ ePc = "query_logs"
    /\ \E turn \in AgentTurns, last_output \in ToolOutputs :
         /\ eCalls' = IntermediateSteps(turn)
         /\ eResult' = query_logs(turn, last_output)
    /\ ePc' = "build_context"
    /\ UNCHANGED <<eState, eEarlier>>
    /\ UNCHANGED notExec

\* loki_execute_query_node after the await: build the context of the result,
\* join it to the earlier one, and write both fields.
loki_execute_query_node_update ==
    /\ ePc = "build_context"
    /\ LET additional_context == build_log_context(eResult.agent_result.logs) IN
         eState' = [eState EXCEPT !.additionalContextFromLoki =
                      JoinedContext(eState.additionalContextFromLoki,
                                    additional_context)]
    /\ ePc' = "END"
    /\ UNCHANGED <<eCalls, eResult, eEarlier>>
    /\ UNCHANGED notExec

-----------------------------------------------------------------------------
(* The log-query tools (src/src/alm/tools/loki_tools.py) over the MCP      *)
(* client (src/src/alm/mcp/mcp_client.py). A message is a sequence of       *)
(* tokens; a line's timestamp is its rank in the file.                      *)

\* Bounds of the tools model.
MaxFileLen == 4
MaxLinesAbove == 2

\* timedelta(days=25), timedelta(minutes=10) and the 5000-row limit, scaled
\* to the model: the lines written in the 25 days before and in the 10
\* minutes after a line, and the rows one query returns.
WindowBefore == 3
WindowAfter == 3
MaxRows == 3

\* LogEntry.timestamp's default, which int() rejects.
UnknownTimestamp == 0

Messages == {<<"a">>, <<"a", "b">>, <<"Error">>}
\* What MCPClient.call_tool hands back when the store did not answer:
\* "Error: ...", "Error calling tool: ..." or "No content returned".
ErrorText == <<"Error">>

\* The log_message / text the agent passes: a whole line, a part of a line,
\* a text no line has, and a text the client's error text contains.
TargetTexts == {<<"a">>, <<"a", "b">>, <<"c">>, <<"Error">>}

\* Python `text in message`.
Contains(text, message) ==
    \E i \in 0..(Len(message) - Len(text)) :
        SubSeq(message, i + 1, i + Len(text)) = text

\* The lines of a file; `no` is the line's number in the file.
FileLine(i, message) == [no |-> i, timestamp |-> i, message |-> message]

LogFiles ==
    { [i \in 1..Len(ms) |-> FileLine(i, ms[i])] :
        ms \in SeqsUpTo(Messages, MaxFileLen) }

Reversed(s) == [i \in 1..Len(s) |-> s[Len(s) + 1 - i]]

\* The store's answer to a LogQL query on the file: the lines within
\* [start, end] that contain the text (|=), in the asked direction, cut at
\* the limit.
LokiQuery(file, text, start, end, limit, direction) ==
    LET hits == SelectSeq(file, LAMBDA l : /\ start <= l.timestamp
                                          /\ l.timestamp <= end
                                          /\ Contains(text, l.message))
        ordered == IF direction = "backward" THEN Reversed(hits) ELSE hits
    IN  SubSeq(ordered, 1, IF Len(ordered) < limit THEN Len(ordered) ELSE limit)

\* How one MCP round trip can end: the store answers with JSON; call_tool
\* returns an error text; or create_mcp_client raises.
McpOutcomes == {"json", "error_text", "raises"}

ToolError == [status |-> "error", number_of_logs |-> 0, logs |-> <<>>]
NotRun == [status |-> NONE, number_of_logs |-> 0, logs |-> <<>>]

\* execute_loki_query: a JSON answer is parsed into its entries; anything
\* else becomes a success output whose one entry is str(result).
execute_loki_query(outcome, rows) ==
    CASE outcome = "raises" ->
           [raised |-> TRUE, out |-> ToolError]
      [] outcome = "error_text" ->
           [raised |-> FALSE,
            out |-> [status |-> "success", number_of_logs |-> 1,
                     logs |-> <<[no |-> 0, timestamp |-> UnknownTimestamp,
                                 message |-> ErrorText]>>]]
      [] OTHER ->
           [raised |-> FALSE,
            out |-> [status |-> "success", number_of_logs |-> Len(rows),
                     logs |-> rows]]

\* get_logs_by_file_name: the query's output, or an error output when
\* execute_loki_query raised.
get_logs_by_file_name(outcome, file, start, end, limit, direction) ==
    LET result == execute_loki_query(outcome,
                      LokiQuery(file, <<>>, start, end, limit, direction))
    IN  IF result.raised THEN ToolError ELSE result.out

\* search_logs_by_text: direction is left at execute_loki_query's default.
search_logs_by_text(outcome, file, text, start, end, limit) ==
    LET result == execute_loki_query(outcome,
                      LokiQuery(file, text, start, end, limit, "backward"))
    IN  IF result.raised THEN ToolError ELSE result.out

\* Mutant of _extract_context_lines_above: the slice stops before the target.
_extract_context_lines_above_exclusive(all_logs, target_message, lines_above) ==
    LET found == {i \in DOMAIN all_logs :
                     Contains(target_message, all_logs[i].message)}
    IN  IF found = {}
        THEN [context_logs |-> <<>>, error |-> TRUE]
        ELSE LET target_idx == CHOOSE i \in found : \A j \in found : i <= j
                 start_idx == IF target_idx - lines_above < 1
                              THEN 1 ELSE target_idx - lines_above
             IN  [context_logs |-> SubSeq(all_logs, start_idx, target_idx - 1),
                  error |-> FALSE]

\* _extract_context_lines_above: the first line that contains the target
\* message, and the lines_above lines before it (positions from 1).
_extract_context_lines_above(all_logs, target_message, lines_above) ==
    LET found == {i \in DOMAIN all_logs :
                     Contains(target_message, all_logs[i].message)}
    IN  IF found = {}
        THEN [context_logs |-> <<>>, error |-> TRUE]
        ELSE LET target_idx == CHOOSE i \in found : \A j \in found : i <= j
                 start_idx == IF target_idx - lines_above < 1
                              THEN 1 ELSE target_idx - lines_above
             IN  [context_logs |-> SubSeq(all_logs, start_idx, target_idx),
                  error |-> FALSE]

\* Step 1 of get_log_lines_above: the text search with limit 1 over the
\* whole file.
TargetResult(outcome, file, log_message) ==
    search_logs_by_text(outcome, file, log_message, 1, Len(file), 1)

\* Step 3 of get_log_lines_above: the window around the target's timestamp,
\* newest first; NotRun when the tool returned before it.
ContextData(outcome, file, target_result) ==
    IF target_result.logs = <<>>
       \/ target_result.logs[1].timestamp = UnknownTimestamp
    THEN NotRun
    ELSE LET t == target_result.logs[1].timestamp IN
         get_logs_by_file_name(outcome, file, t - WindowBefore,
                               t + WindowAfter, MaxRows, "backward")

\* get_log_lines_above, from the results of its two queries. An empty window
\* makes chronological_logs[0] raise IndexError, which the outer except
\* turns into an error output.
get_log_lines_above(target_result, context_data, log_message, lines_above) ==
    IF target_result.logs = <<>> THEN ToolError
    ELSE IF target_result.logs[1].timestamp = UnknownTimestamp THEN ToolError
    ELSE IF context_data.status # "success" THEN ToolError
    ELSE LET chronological_logs == Reversed(context_data.logs) IN
         IF chronological_logs = <<>> THEN ToolError
         ELSE LET extracted == _extract_context_lines_above(
                                   chronological_logs, log_message, lines_above)
              IN  IF extracted.error THEN ToolError
                  ELSE [status |-> "success",
                        number_of_logs |-> Len(extracted.context_logs),
                        logs |-> extracted.context_logs]

NoToolCall ==
    [tool |-> NONE, mcp |-> <<>>, target_result |-> NotRun,
     context_data |-> NotRun]

ToolIdle ==
    /\ tPc = "idle"
    /\ tFile = <<>>
    /\ tArgs = [log_message |-> <<"a">>, lines_above |-> 0]
    /\ tCall = NoToolCall
    /\ tOut = NotRun

ToolInit ==
    /\ tPc = "ready"
    /\ tFile \in LogFiles
    /\ tArgs \in [log_message : TargetTexts, lines_above : 0..MaxLinesAbove]
    /\ tCall = NoToolCall
    /\ tOut = NotRun

\* The agent runs get_logs_by_file_name on the file.
call_get_logs_by_file_name ==
    /\ tPc = "ready"
    /\ \E outcome \in McpOutcomes, direction \in {"backward", "forward"} :
         /\ tOut' = get_logs_by_file_name(outcome, tFile, 1, Len(tFile),
                                          MaxRows, direction)
         /\ tCall' = [NoToolCall EXCEPT !.tool = "get_logs_by_file_name",
                                        !.mcp = <<outcome>>]
    /\ tPc' = "returned"
    /\ UNCHANGED <<tFile, tArgs>>
    /\ UNCHANGED notTool

\* The agent runs search_logs_by_text for the text.
call_search_logs_by_text ==
    /\ tPc = "ready"
    /\ \E outcome \in McpOutcomes :
         /\ tOut' = search_logs_by_text(outcome, tFile, tArgs.log_message,
                                        1, Len(tFile), MaxRows)
         /\ tCall' = [NoToolCall EXCEPT !.tool = "search_logs_by_text",
                                        !.mcp = <<outcome>>]
    /\ tPc' = "returned"
    /\ UNCHANGED <<tFile, tArgs>>
    /\ UNCHANGED notTool

\* The agent runs get_log_lines_above for the message.
call_get_log_lines_above ==
    /\ tPc = "ready"
    /\ \E step1 \in McpOutcomes, step3 \in McpOutcomes :
         LET target_result == TargetResult(step1, tFile, tArgs.log_message)
             context_data == ContextData(step3, tFile, target_result)
         IN  /\ tOut' = get_log_lines_above(target_result, context_data,
                            tArgs.log_message, tArgs.lines_above)
             /\ tCall' = [tool |-> "get_log_lines_above",
                          mcp |-> <<step1, step3>>,
                          target_result |-> target_result,
                          context_data |-> context_data]
    /\ tPc' = "returned"
    /\ UNCHANGED <<tFile, tArgs>>
    /\ UNCHANGED notTool

-----------------------------------------------------------------------------
(* Retrieval engine, index side (src/src/alm/rag/embed_and_index.py,       *)
(* src/init_pipeline.py): build, save, load, and the query a loaded         *)
(* pipeline serves.                                                        *)

\* Bounds of the index model.
MaxEntries == 2
MaxBuilds == 2
MaxLoads == 2

\* Section texts: none, blank, or text.
Blank == "  "
SomeText == "text"

\* str.strip() on the section texts.
Strip(t) == IF t = Blank THEN "" ELSE t

\* The grouped knowledge-base entries (group_chunks_by_error), by what their
\* description and symptoms sections hold.
Entries ==
    { [error_id |-> "e_desc", description |-> SomeText, symptoms |-> ""],
      [error_id |-> "e_symp", description |-> "", symptoms |-> SomeText],
      [error_id |-> "e_both", description |-> SomeText, symptoms |-> SomeText],
      [error_id |-> "e_blank", description |-> Blank, symptoms |-> ""],
      [error_id |-> "e_none", description |-> "", symptoms |-> ""] }

EntryIds == {e.error_id : e \in Entries}

\* A dict keyed by error_id, in insertion order: no id twice.
DistinctIds(store) ==
    \A i \in DOMAIN store : \A j \in DOMAIN store :
        i # j => store[i].error_id # store[j].error_id

Corpora == {c \in SeqsUpTo(Entries, MaxEntries) : DistinctIds(c)}

EmbeddingModels == {"nomic-ai/nomic-embed-text-v1.5", "all-MiniLM-L6-v2"}

\* "nomic" in model_name.lower().
UsesTaskPrefix(model_name) == model_name = "nomic-ai/nomic-embed-text-v1.5"

\* Mutant of IsIndexable: nothing is skipped.
IsIndexable_Always(entry) == TRUE

\* create_composite_embeddings:370: an entry is skipped when both stripped
\* sections are empty.
IsIndexable(entry) ==
    ~(Strip(entry.description) = "" /\ Strip(entry.symptoms) = "")

\* The vector of a text: which text, embedded by which model under which
\* role marker.
DocumentVector(model_name, error_id) ==
    [ text |-> error_id, model |-> model_name,
      role |-> IF UsesTaskPrefix(model_name)
               THEN "search_document" ELSE "none" ]

\* _generate_query_embedding: the role marker follows the embedder's model.
QueryVector(model_name) ==
    [ text |-> "query", model |-> model_name,
      role |-> IF UsesTaskPrefix(model_name)
               THEN "search_query" ELSE "none" ]

\* create_composite_embeddings: one vector per indexable entry, and their ids.
create_composite_embeddings(model_name, error_store) ==
    LET kept == SelectSeq(error_store, IsIndexable)
    IN [ embeddings |-> [i \in DOMAIN kept |->
                            DocumentVector(model_name, kept[i].error_id)],
         error_ids |-> [i \in DOMAIN kept |-> kept[i].error_id] ]

\* error_store[error_id].
Lookup(store, error_id) ==
    LET at == {i \in DOMAIN store : store[i].error_id = error_id}
    IN store[CHOOSE i \in at : TRUE]

\* An embedder without an index (AnsibleErrorEmbedder.__init__).
NewEmbedder(model_name) ==
    [ model_name |-> model_name, has_index |-> FALSE, index |-> <<>>,
      index_to_error_id |-> <<>>, error_store |-> <<>> ]

\* build_faiss_index: the vectors in order, position p held at [p + 1];
\* only the entries that have a vector are stored.
build_faiss_index(embedder, embeddings, error_ids, error_store) ==
    [ embedder EXCEPT
        !.has_index = TRUE,
        !.index = embeddings,
        !.index_to_error_id = error_ids,
        !.error_store = [i \in DOMAIN error_ids |->
                            Lookup(error_store, error_ids[i])] ]

NoIndexFile == [exists |-> FALSE, build |-> 0, index |-> <<>>]

NoMetaFile ==
    [ exists |-> FALSE, build |-> 0, error_store |-> <<>>,
      index_to_error_id |-> <<>>, model_name |-> NONE ]

\* save_index:460: faiss.write_index.
WrittenIndexFile(embedder, build) ==
    [exists |-> TRUE, build |-> build, index |-> embedder.index]

\* save_index:466-476: the pickled metadata.
WrittenMetaFile(embedder, build) ==
    [ exists |-> TRUE, build |-> build,
      error_store |-> embedder.error_store,
      index_to_error_id |-> embedder.index_to_error_id,
      model_name |-> embedder.model_name ]

\* Mutant of ReadMetadata: the position map comes back in another order.
RECURSIVE Reverse(_)
Reverse(q) == IF q = <<>> THEN <<>> ELSE Append(Reverse(Tail(q)), Head(q))

ReadMetadata_Reordered(embedder, file) ==
    [ embedder EXCEPT !.error_store = file.error_store,
                      !.index_to_error_id = Reverse(file.index_to_error_id) ]

\* load_index:492: faiss.read_index.
ReadIndex(embedder, file) ==
    [embedder EXCEPT !.has_index = TRUE, !.index = file.index]

\* load_index:498-502: the store and the position map replace the embedder's;
\* its model_name stays the configured one.
ReadMetadata(embedder, file) ==
    [ embedder EXCEPT !.error_store = file.error_store,
                      !.index_to_error_id = file.index_to_error_id ]

\* The top-1 result of a query on an embedder: _similarity_search with
\* top_k = 1. A position the map lacks, or an id the store lacks, is a
\* KeyError.
Top1(embedder, similarity) ==
    LET scores == [i \in DOMAIN embedder.index |->
                      similarity[embedder.index[i].text]]
        hits == SelectSeq(FaissSearch(scores, Positions(scores), 1),
                          LAMBDA h : h.idx # -1)
    IN IF hits = <<>> THEN [status |-> "empty", error_id |-> NONE]
       ELSE IF hits[1].idx + 1 \notin DOMAIN embedder.index_to_error_id
            THEN [status |-> "KeyError", error_id |-> NONE]
       ELSE LET error_id == embedder.index_to_error_id[hits[1].idx + 1]
            IN IF \A i \in DOMAIN embedder.error_store :
                     embedder.error_store[i].error_id # error_id
               THEN [status |-> "KeyError", error_id |-> NONE]
               ELSE [status |-> "hit", error_id |-> error_id]

DocScores == {6, 9}

SimilarityTables == [EntryIds -> DocScores]

FixedSimilarity == [e \in EntryIds |-> 6]

\* The knowledge bases of the store model: two editions of the documents.
StoreCorpora ==
    { c \in Corpora :
        Len(c) = MaxEntries /\ \A i \in DOMAIN c : IsIndexable(c[i]) }

WriterAtRest == {"idle", "saved", "crashed", "failed", "skipped"}

NewWriter ==
    [ pc |-> "idle", runs |-> 0, build |-> 0,
      embedder |-> NewEmbedder(NONE), source |-> <<>> ]

NewLoader ==
    [ pc |-> "idle", loads |-> 0, embedder |-> NewEmbedder(NONE),
      index_build |-> 0, meta_build |-> 0, stored_model |-> NONE,
      warned |-> FALSE ]

NotServed ==
    [ done |-> FALSE, query |-> QueryVector(NONE), documents |-> {},
      top1 |-> [status |-> "empty", error_id |-> NONE] ]

StoreIdle ==
    /\ corpus = <<>>
    /\ cfgModel = NONE
    /\ sim = FixedSimilarity
    /\ indexFile = NoIndexFile
    /\ metaFile = NoMetaFile
    /\ writer = [NewWriter EXCEPT !.pc = "parked"]
    /\ loader = [NewLoader EXCEPT !.pc = "parked"]
    /\ served = NotServed

\* One build, save, load and query, for every knowledge base.
BuildInit ==
    /\ corpus \in Corpora
    /\ cfgModel \in EmbeddingModels
    /\ sim \in SimilarityTables
    /\ indexFile = NoIndexFile
    /\ metaFile = NoMetaFile
    /\ writer = NewWriter
    /\ loader = NewLoader
    /\ served = NotServed

\* Builds, rebuilds, crashes, loads and queries over a changing knowledge
\* base and configuration.
StoreInit ==
    /\ corpus \in StoreCorpora
    /\ cfgModel \in EmbeddingModels
    /\ sim = FixedSimilarity
    /\ indexFile = NoIndexFile
    /\ metaFile = NoMetaFile
    /\ writer = NewWriter
    /\ loader = NewLoader
    /\ served = NotServed

\* ingest_and_index up to save_index: embed the indexable entries and build
\* the index in memory; the embedding call may raise, and an empty embedding
\* matrix raises in build_faiss_index.
Ingest ==
    \E encoded \in BOOLEAN :
        LET made == create_composite_embeddings(cfgModel, corpus) IN
        IF encoded /\ made.error_ids # <<>>
        THEN writer' =
               [ pc |-> "built", runs |-> writer.runs + 1,
                 build |-> writer.build + 1,
                 embedder |-> build_faiss_index(NewEmbedder(cfgModel),
                                  made.embeddings, made.error_ids, corpus),
                 source |-> corpus ]
        ELSE writer' = [writer EXCEPT !.pc = "failed",
                                      !.runs = writer.runs + 1]

\* build_rag_index (the init job): skips the rebuild when both files exist.
build_rag_index ==
    /\ writer.pc \in WriterAtRest
    /\ writer.runs < MaxBuilds
    /\ IF indexFile.exists /\ metaFile.exists
       THEN writer' = [writer EXCEPT !.pc = "skipped",
                                     !.runs = writer.runs + 1]
       ELSE Ingest
    /\ UNCHANGED <<corpus, cfgModel, sim, indexFile, metaFile, loader, served>>
    /\ UNCHANGED notStore

\* embed_and_index.main: always rebuilds and saves.
reindex ==
    /\ writer.pc \in WriterAtRest
    /\ writer.runs < MaxBuilds
    /\ Ingest
    /\ UNCHANGED <<corpus, cfgModel, sim, indexFile, metaFile, loader, served>>
    /\ UNCHANGED notStore

\* save_index, first write: the index file.
save_index_write_index ==
    /\ writer.pc = "built"
    /\ indexFile' = WrittenIndexFile(writer.embedder, writer.build)
    /\ writer' = [writer EXCEPT !.pc = "index_written"]
    /\ UNCHANGED <<corpus, cfgModel, sim, metaFile, loader, served>>
    /\ UNCHANGED notStore

\* save_index, second write: the metadata file.
save_index_write_metadata ==
    /\ writer.pc = "index_written"
    /\ metaFile' = WrittenMetaFile(writer.embedder, writer.build)
    /\ writer' = [writer EXCEPT !.pc = "saved"]
    /\ UNCHANGED <<corpus, cfgModel, sim, indexFile, loader, served>>
    /\ UNCHANGED notStore

\* The saving process dies, or pickle.dump raises, between the two writes.
save_index_interrupted ==
    /\ writer.pc = "index_written"
    /\ writer' = [writer EXCEPT !.pc = "crashed"]
    /\ UNCHANGED <<corpus, cfgModel, sim, indexFile, metaFile, loader, served>>
    /\ UNCHANGED notStore

\* A query pipeline is created: a new embedder with the configured model,
\* then load_index up to the index file.
load_index_read_index ==
    /\ loader.pc = "idle"
    /\ loader' =
         IF ~indexFile.exists
         THEN [loader EXCEPT !.pc = "rejected",
                             !.embedder = NewEmbedder(cfgModel)]
         ELSE [loader EXCEPT !.pc = "index_read",
                             !.embedder =
                                 ReadIndex(NewEmbedder(cfgModel), indexFile),
                             !.index_build = indexFile.build]
    /\ UNCHANGED <<corpus, cfgModel, sim, indexFile, metaFile, writer, served>>
    /\ UNCHANGED notStore

\* load_index from the metadata file on: a model mismatch only warns.
load_index_read_metadata ==
    /\ loader.pc = "index_read"
    /\ loader' =
         IF ~metaFile.exists
         THEN [loader EXCEPT !.pc = "rejected"]
         ELSE [loader EXCEPT
                 !.pc = "loaded",
                 !.embedder = ReadMetadata(loader.embedder, metaFile),
                 !.meta_build = metaFile.build,
                 !.stored_model = metaFile.model_name,
                 !.warned = metaFile.model_name # loader.embedder.model_name]
    /\ UNCHANGED <<corpus, cfgModel, sim, indexFile, metaFile, writer, served>>
    /\ UNCHANGED notStore

\* The loaded pipeline serves a query: the query text is embedded by the
\* embedder's own model and scored against the vectors of the loaded index.
serve_query ==
    /\ loader.pc = "loaded"
    /\ ~served.done
    /\ served' =
         [ done |-> TRUE,
           query |-> QueryVector(loader.embedder.model_name),
           documents |-> {[model |-> loader.embedder.index[i].model,
                           role |-> loader.embedder.index[i].role] :
                             i \in DOMAIN loader.embedder.index},
           top1 |-> Top1(loader.embedder, sim) ]
    /\ UNCHANGED <<corpus, cfgModel, sim, indexFile, metaFile, writer, loader>>
    /\ UNCHANGED notStore

\* The serving process restarts and creates its pipeline again.
restart_pipeline ==
    /\ loader.pc \in {"loaded", "rejected"}
    /\ loader.loads < MaxLoads
    /\ loader' = [NewLoader EXCEPT !.loads = loader.loads + 1]
    /\ served' = NotServed
    /\ UNCHANGED <<corpus, cfgModel, sim, indexFile, metaFile, writer>>
    /\ UNCHANGED notStore

\* The knowledge-base documents are replaced by another edition.
edit_corpus ==
    /\ writer.pc \in WriterAtRest
    /\ \E c \in StoreCorpora \ {corpus} : corpus' = c
    /\ UNCHANGED <<cfgModel, sim, indexFile, metaFile, writer, loader, served>>
    /\ UNCHANGED notStore

\* EMBEDDINGS_LLM_MODEL_NAME is changed between two process starts.
reconfigure_model ==
    /\ writer.pc \in WriterAtRest
    /\ loader.pc \in {"idle", "loaded", "rejected"}
    /\ \E m \in EmbeddingModels \ {cfgModel} : cfgModel' = m
    /\ UNCHANGED <<corpus, sim, indexFile, metaFile, writer, loader, served>>
    /\ UNCHANGED notStore

-----------------------------------------------------------------------------
(* Clustering stage (src/src/alm/agents/node.py,                           *)
(* src/src/alm/agents/analizer/node.py).                                   *)

\* Bounds of the clustering model.
MaxLogs == 3

\* The noise label of DBSCAN.
Noise == -1

ValueError == "ValueError"
EmbeddingError == "embedding_error"

\* Values of CLUSTERING_ALGORITHM (NONE: not set) and of the algorithm
\* parameter.
AlgorithmNames ==
    {"dbscan", "DBSCAN", "meanshift", "MeanShift", "agglomerative",
     "kmeans", "", NONE}

\* str.lower() on the algorithm names.
Lower(name) ==
    CASE name = "DBSCAN" -> "dbscan"
      [] name = "MeanShift" -> "meanshift"
      [] OTHER -> name

MaxOf(S) == CHOOSE x \in S : \A y \in S : y <= x

LabelsOf(labels) == {labels[i] : i \in DOMAIN labels}

\* Labelings a fitted algorithm can return: clusters numbered from 0 with no
\* gap; DBSCAN (min_samples = 2) also marks noise, and its clusters have at
\* least two members; the other algorithms mark no noise.
Labelings(n, with_noise) ==
    { l \in [1 .. n -> (IF with_noise THEN {Noise} ELSE {}) \cup (0 .. n - 1)] :
        /\ \A c \in LabelsOf(l) : c > 0 => (c - 1) \in LabelsOf(l)
        /\ with_noise =>
             \A c \in LabelsOf(l) \ {Noise} :
                Cardinality({i \in 1 .. n : l[i] = c}) >= 2 }

FitsOf(algorithm, n) ==
    IF algorithm # NONE /\ Lower(algorithm) = "dbscan"
    THEN Labelings(n, TRUE) ELSE Labelings(n, FALSE)

\* _cluster_logs with a fallback: whatever is configured, some algorithm fits.
_cluster_logs_fallback(algorithm, fit) ==
    [ok |-> TRUE, err |-> NONE, value |-> fit]

\* _cluster_logs: the labels of the configured algorithm; None has no lower(),
\* an unsupported name raises ValueError.
_cluster_logs(algorithm, fit) ==
    IF algorithm = NONE
    THEN [ok |-> FALSE, err |-> AttributeError, value |-> <<>>]
    ELSE IF Lower(algorithm) \in {"dbscan", "meanshift", "agglomerative"}
    THEN [ok |-> TRUE, err |-> NONE, value |-> fit]
    ELSE [ok |-> FALSE, err |-> ValueError, value |-> <<>>]

\* _handle_outlaier_cluster: each noise label, by increasing position, is
\* replaced by the next id after the largest label.
RECURSIVE RelabelFrom(_, _, _)
RelabelFrom(labels, i, next_cluster_id) ==
    IF i > Len(labels) THEN labels
    ELSE IF labels[i] = Noise
         THEN RelabelFrom([labels EXCEPT ![i] = next_cluster_id], i + 1,
                          next_cluster_id + 1)
         ELSE RelabelFrom(labels, i + 1, next_cluster_id)

\* _handle_outlaier_cluster with one shared id for all noise.
_handle_outlaier_cluster_shared(cluster_labels) ==
    [ i \in DOMAIN cluster_labels |->
        IF cluster_labels[i] = Noise
        THEN MaxOf(LabelsOf(cluster_labels)) + 1
        ELSE cluster_labels[i] ]

_handle_outlaier_cluster(cluster_labels) ==
    RelabelFrom(cluster_labels, 1, MaxOf(LabelsOf(cluster_labels)) + 1)

\* The algorithm the batch pipeline passes to cluster_logs.
BatchAlgorithm == "meanshift"

NoLabels == [labels |-> <<>>, err |-> NONE, saved |-> FALSE]

ClusterInputs ==
    { in \in [ fn : {"train_embed_and_cluster_logs", "cluster_logs"},
               n : 0 .. MaxLogs,
               algorithm : AlgorithmNames,
               save_cluster_model : BOOLEAN,
               fit : UNION {Labelings(n, TRUE) : n \in 0 .. MaxLogs} ] :
        /\ in.fit \in FitsOf(in.algorithm, in.n)
        /\ in.fn = "cluster_logs" =>
             (in.algorithm = BatchAlgorithm /\ ~in.save_cluster_model) }

ClusterIdle ==
    /\ kPc = "idle"
    /\ kIn = [ fn |-> "cluster_logs", n |-> 0, algorithm |-> "meanshift",
               save_cluster_model |-> FALSE, fit |-> <<>> ]
    /\ kOut = NoLabels

ClusterInit ==
    /\ kPc = "ready"
    /\ kIn \in ClusterInputs
    /\ kOut = NoLabels

\* train_embed_and_cluster_logs(logs, save_cluster_model).
train_embed_and_cluster_logs ==
    /\ kPc = "ready"
    /\ kIn.fn = "train_embed_and_cluster_logs"
    /\ IF kIn.n = 0
       THEN kPc' = "returned" /\ kOut' = NoLabels
       ELSE \E embedded \in BOOLEAN :
              LET fitted == _cluster_logs(kIn.algorithm, kIn.fit) IN
              IF ~embedded
              THEN /\ kPc' = "raised"
                   /\ kOut' = [NoLabels EXCEPT !.err = EmbeddingError]
              ELSE IF ~fitted.ok
              THEN /\ kPc' = "raised"
                   /\ kOut' = [NoLabels EXCEPT !.err = fitted.err]
              ELSE /\ kPc' = "returned"
                   /\ kOut' = [ labels |->
                                  _handle_outlaier_cluster(fitted.value),
                                err |-> NONE,
                                saved |-> kIn.save_cluster_model ]
    /\ UNCHANGED kIn
    /\ UNCHANGED notCluster

\* cluster_logs(logs, algorithm=...) of the batch pipeline's module: the
\* labels go out as the algorithm fitted them (no noise is rewritten), and
\* no model is saved.
cluster_logs ==
    /\ kPc = "ready"
    /\ kIn.fn = "cluster_logs"
    /\ IF kIn.n = 0
       THEN kPc' = "returned" /\ kOut' = NoLabels
       ELSE \E embedded \in BOOLEAN :
              LET fitted == _cluster_logs(kIn.algorithm, kIn.fit) IN
              IF ~embedded
              THEN /\ kPc' = "raised"
                   /\ kOut' = [NoLabels EXCEPT !.err = EmbeddingError]
              ELSE IF ~fitted.ok
              THEN /\ kPc' = "raised"
                   /\ kOut' = [NoLabels EXCEPT !.err = fitted.err]
              ELSE /\ kPc' = "returned"
                   /\ kOut' = [ labels |-> fitted.value, err |-> NONE,
                                saved |-> FALSE ]
    /\ UNCHANGED kIn
    /\ UNCHANGED notCluster

-----------------------------------------------------------------------------
(* Batch pipeline (src/src/alm/pipeline/find_categories.py), as run by     *)
(* whole_pipeline: every generation flag set.                              *)

\* Bounds of the batch model.
MaxAlerts == 2

\* What a language-model call can answer.
Replies == {"r1", "r2"}

GenerationSteps == {"summarize_log", "categorize_log",
                    "suggest_step_by_step_solution"}

\* An alert as ingest_alerts yields it.
NewBatchAlert ==
    [ logSummary |-> NONE, expertClassification |-> NONE,
      stepByStepSolution |-> NONE, logCluster |-> NONE ]

\* Keys of {label: alert for alert, label in zip(alerts, cluster_labels)},
\* in insertion order: each label at its first occurrence.
RECURSIVE KeysFrom(_, _, _)
KeysFrom(cluster_labels, i, keys) ==
    IF i > Len(cluster_labels) THEN keys
    ELSE IF cluster_labels[i] \in LabelsOf(keys)
         THEN KeysFrom(cluster_labels, i + 1, keys)
         ELSE KeysFrom(cluster_labels, i + 1,
                       Append(keys, cluster_labels[i]))

\* unique_cluster[label]: the last alert zipped with the label.
unique_cluster(cluster_labels, label) ==
    MaxOf({i \in DOMAIN cluster_labels : cluster_labels[i] = label})

\* candidate_alerts = list(unique_cluster.values()), as positions in alerts.
candidate_alerts(cluster_labels) ==
    LET keys == KeysFrom(cluster_labels, 1, <<>>) IN
    [k \in DOMAIN keys |-> unique_cluster(cluster_labels, keys[k])]

\* Fan-out in which every alert keeps its own fields.
FanOutSource_Self(cluster_labels, i) == i

\* The alert whose fields the fan-out loop copies into alert i.
FanOutSource(cluster_labels, i) ==
    unique_cluster(cluster_labels, cluster_labels[i])

Running == [state |-> "running", result |-> NONE]

TasksFor(n) == [k \in 1 .. n |-> Running]

AllDone(tasks) == \A k \in DOMAIN tasks : tasks[k].state = "done"

ResultsOf(tasks) == [k \in DOMAIN tasks |-> tasks[k].result]

\* A task that raises: gather re-raises into _pipeline, whose caller's
\* event loop then cancels what is still running.
AfterFailure(tasks, failed) ==
    [k \in DOMAIN tasks |->
        IF k = failed THEN [tasks[k] EXCEPT !.state = "failed"]
        ELSE IF tasks[k].state = "running"
             THEN [tasks[k] EXCEPT !.state = "cancelled"]
             ELSE tasks[k]]

NoLists ==
    [ log_summaries |-> <<>>, log_expert_calssification |-> <<>>,
      step_by_step_solutions |-> <<>> ]

NoCalls == [step \in GenerationSteps |-> <<>>]

BatchIdle ==
    /\ bPc = "idle"
    /\ bLabels = <<>>
    /\ bAlerts = <<>>
    /\ bTasks = <<>>
    /\ bLists = NoLists
    /\ bCalls = NoCalls
    /\ bDb = {}

BatchInit ==
    /\ bPc = "ingested"
    /\ bLabels = <<>>
    /\ bAlerts \in {[i \in 1 .. n |-> NewBatchAlert] : n \in 0 .. MaxAlerts}
    /\ bTasks = <<>>
    /\ bLists = NoLists
    /\ bCalls = NoCalls
    /\ bDb = {}

\* Lines 94-99: one label per alert from cluster_logs.
cluster_alerts ==
    /\ bPc = "ingested"
    /\ bLabels' \in Labelings(Len(bAlerts), FALSE)
    /\ bPc' = "clustered"
    /\ UNCHANGED <<bAlerts, bTasks, bLists, bCalls, bDb>>
    /\ UNCHANGED notBatch

\* Lines 102-107: one summarize_log call per candidate, gathered.
generate_log_summaries ==
    /\ bPc = "clustered"
    /\ LET candidates == candidate_alerts(bLabels) IN
       /\ bTasks' = TasksFor(Len(candidates))
       /\ bCalls' = [bCalls EXCEPT !["summarize_log"] = candidates]
    /\ bPc' = "summarizing"
    /\ UNCHANGED <<bLabels, bAlerts, bLists, bDb>>
    /\ UNCHANGED notBatch

\* Lines 116-121: one categorize_log call per summary, gathered.
generate_log_categories ==
    /\ bPc = "summarizing"
    /\ AllDone(bTasks)
    /\ bLists' = [bLists EXCEPT !.log_summaries = ResultsOf(bTasks)]
    /\ bTasks' = TasksFor(Len(bTasks))
    /\ bCalls' = [bCalls EXCEPT !["categorize_log"] =
                     [k \in DOMAIN bTasks |-> candidate_alerts(bLabels)[k]]]
    /\ bPc' = "classifying"
    /\ UNCHANGED <<bLabels, bAlerts, bDb>>
    /\ UNCHANGED notBatch

\* Lines 132-140: one suggest_step_by_step_solution call per summary and
\* candidate, gathered.
generate_step_by_step_solutions ==
    /\ bPc = "classifying"
    /\ AllDone(bTasks)
    /\ bLists' = [bLists EXCEPT
                    !.log_expert_calssification = ResultsOf(bTasks)]
    /\ bTasks' = TasksFor(Len(bLists.log_summaries))
    /\ bCalls' = [bCalls EXCEPT !["suggest_step_by_step_solution"] =
                     [k \in DOMAIN bLists.log_summaries |->
                         candidate_alerts(bLabels)[k]]]
    /\ bPc' = "solving"
    /\ UNCHANGED <<bLabels, bAlerts, bDb>>
    /\ UNCHANGED notBatch

\* Lines 151-159: the candidates take the generated values.
UpdatedCandidates(alerts, candidates, lists) ==
    [ i \in DOMAIN alerts |->
        IF \E k \in DOMAIN candidates : candidates[k] = i
        THEN LET k == CHOOSE k \in DOMAIN candidates : candidates[k] = i IN
             [ alerts[i] EXCEPT
                 !.logSummary = lists.log_summaries[k],
                 !.expertClassification = lists.log_expert_calssification[k],
                 !.stepByStepSolution = lists.step_by_step_solutions[k] ]
        ELSE alerts[i] ]

\* Lines 162-167: every alert takes the fields of its label's candidate and
\* the label as text.
FannedOut(alerts, cluster_labels) ==
    [ i \in DOMAIN alerts |->
        LET candidate_alert == alerts[FanOutSource(cluster_labels, i)] IN
        [ logSummary |-> candidate_alert.logSummary,
          expertClassification |-> candidate_alert.expertClassification,
          stepByStepSolution |-> candidate_alert.stepByStepSolution,
          logCluster |-> ToString(cluster_labels[i]) ] ]

\* Lines 135-171: the solutions come back, the alerts are updated and one
\* _add_or_update_alert per alert is gathered.
update_alerts ==
    /\ bPc = "solving"
    /\ AllDone(bTasks)
    /\ LET lists == [bLists EXCEPT
                       !.step_by_step_solutions = ResultsOf(bTasks)] IN
       /\ bLists' = lists
       /\ bAlerts' = FannedOut(
              UpdatedCandidates(bAlerts, candidate_alerts(bLabels), lists),
              bLabels)
    /\ bTasks' = TasksFor(Len(bAlerts))
    /\ bPc' = "persisting"
    /\ UNCHANGED <<bLabels, bCalls, bDb>>
    /\ UNCHANGED notBatch

\* One language-model call of the awaited gather ends: with a reply, or with
\* an exception, which no code between the call and _pipeline's caller
\* catches.
llm_call_returns ==
    /\ bPc \in {"summarizing", "classifying", "solving"}
    /\ \E k \in DOMAIN bTasks :
         /\ bTasks[k].state = "running"
         /\ \/ \E reply \in Replies :
                 /\ bTasks' = [bTasks EXCEPT
                                 ![k] = [state |-> "done", result |-> reply]]
                 /\ bPc' = bPc
            \/ /\ bTasks' = AfterFailure(bTasks, k)
               /\ bPc' = "raised"
    /\ UNCHANGED <<bLabels, bAlerts, bLists, bCalls, bDb>>
    /\ UNCHANGED notBatch

\* Lines 20-24: one _add_or_update_alert ends: committed, or with an
\* exception.
_add_or_update_alert ==
    /\ bPc = "persisting"
    /\ \E i \in DOMAIN bTasks :
         /\ bTasks[i].state = "running"
         /\ \/ /\ bTasks' = [bTasks EXCEPT ![i].state = "done"]
               /\ bDb' = bDb \cup {i}
               /\ bPc' = bPc
            \/ /\ bTasks' = AfterFailure(bTasks, i)
               /\ bDb' = bDb
               /\ bPc' = "raised"
    /\ UNCHANGED <<bLabels, bAlerts, bLists, bCalls>>
    /\ UNCHANGED notBatch

\* Lines 171-173: the last gather returns and _pipeline ends.
pipeline_returns ==
    /\ bPc = "persisting"
    /\ AllDone(bTasks)
    /\ bPc' = "done"
    /\ UNCHANGED <<bLabels, bAlerts, bTasks, bLists, bCalls, bDb>>
    /\ UNCHANGED notBatch

\* Language-model calls issued and not yet returned.
InFlight ==
    IF bPc \in {"summarizing", "classifying", "solving"}
    THEN Cardinality({k \in DOMAIN bTasks : bTasks[k].state = "running"})
    ELSE 0

-----------------------------------------------------------------------------
(* The persisted cluster model (src/src/alm/agents/node.py lines 149-153   *)
(* and 200-206, src/src/alm/utils/minio.py): a refit job and a predict in  *)
(* different processes, with no lock between them.                         *)

\* Bounds of the cluster-model artifact.
MaxRefits == 2
MaxPredicts == 2

\* The number of chunks a dumped model is written and read in.
ModelChunks == 2

\* The file of a model dumped completely by one refit.
WholeModel(version) == [c \in 1 .. ModelChunks |-> version]

IsWholeModel(chunks) ==
    /\ Len(chunks) = ModelChunks
    /\ \A c \in DOMAIN chunks : chunks[c] = chunks[1]

ArtifactIdle ==
    /\ modelFile = <<>>
    /\ modelObject = 0
    /\ refit = [pc |-> "parked", version |-> 0]
    /\ predict = [pc |-> "parked", read |-> <<>>, loads |-> 0]
    /\ minioBucket = FALSE

\* A model of an earlier refit (version 0) is in place.
ArtifactInit ==
    /\ modelFile = WholeModel(0)
    /\ modelObject = 0
    /\ refit = [pc |-> "idle", version |-> 0]
    /\ predict = [pc |-> "idle", read |-> <<>>, loads |-> 0]
    /\ minioBucket \in BOOLEAN

\* joblib.dump(cluster_model, path) opens the file for writing, which
\* empties it.
joblib_dump_open ==
    /\ ~minioBucket
    /\ refit.pc = "idle"
    /\ refit.version < MaxRefits
    /\ refit' = [pc |-> "dumping", version |-> refit.version + 1]
    /\ modelFile' = <<>>
    /\ UNCHANGED <<modelObject, predict, minioBucket>>
    /\ UNCHANGED notArtifact

\* joblib.dump writes the next chunk of the pickle; after the last one the
\* file is closed.
joblib_dump_write ==
    /\ refit.pc = "dumping"
    /\ modelFile' = Append(modelFile, refit.version)
    /\ refit' = [refit EXCEPT
                   !.pc = IF Len(modelFile') = ModelChunks
                          THEN "idle" ELSE "dumping"]
    /\ UNCHANGED <<modelObject, predict, minioBucket>>
    /\ UNCHANGED notArtifact

\* upload_model_to_minio: the model is dumped to memory and put in the
\* bucket as one object; the local file is not written.
upload_model_to_minio ==
    /\ minioBucket
    /\ refit.pc = "idle"
    /\ refit.version < MaxRefits
    /\ refit' = [refit EXCEPT !.version = refit.version + 1]
    /\ modelObject' = refit.version + 1
    /\ UNCHANGED <<modelFile, predict, minioBucket>>
    /\ UNCHANGED notArtifact

\* infer_cluster_log: joblib.load opens the file at TMP_CLUSTER_MODEL_PATH.
joblib_load_open ==
    /\ predict.pc \in {"idle", "loaded", "failed"}
    /\ predict.loads < MaxPredicts
    /\ predict' = [pc |-> "loading", read |-> <<>>,
                   loads |-> predict.loads + 1]
    /\ UNCHANGED <<modelFile, modelObject, refit, minioBucket>>
    /\ UNCHANGED notArtifact

\* joblib.load reads the next chunk the file holds; the load ends when the
\* pickle is complete, and fails at an end of file before that.
joblib_load_read ==
    /\ predict.pc = "loading"
    /\ IF Len(predict.read) < Len(modelFile)
       THEN LET read == Append(predict.read,
                               modelFile[Len(predict.read) + 1]) IN
            predict' = [predict EXCEPT
                          !.read = read,
                          !.pc = IF Len(read) = ModelChunks
                                 THEN "loaded" ELSE "loading"]
       ELSE predict' = [predict EXCEPT !.pc = "failed"]
    /\ UNCHANGED <<modelFile, modelObject, refit, minioBucket>>
    /\ UNCHANGED notArtifact

-----------------------------------------------------------------------------
(* The orchestrator graph (src/src/alm/agents/graph.py).                   *)

\* GrafanaAlert built by ainvoke({"logMessage": log_alert}): every other field
\* at its default (src/src/alm/models.py).
NewAlert(m) ==
    [ logMessage |-> m,
      logTimestamp |-> "now",
      logSummary |-> "No summary available",
      expertClassification |-> NONE,
      logCluster |-> NONE,
      needMoreContext |-> NONE,
      stepByStepSolution |-> NONE,
      contextForStepByStepSolution |-> NONE,
      labels |-> "{}",
      logStream |-> NONE ]

\* A node raised: langgraph ends the run and ainvoke re-raises.
Raise(node, err) ==
    /\ pc' = "raised"
    /\ raisedBy' = [node |-> node, err |-> err]
    /\ alert' = alert

\* A Command whose update also overwrites the raw log body.
Goto_Clobbering(next, field, value) ==
    /\ pc' = next
    /\ alert' = [alert EXCEPT ![field] = value, !.logMessage = value]
    /\ raisedBy' = raisedBy

\* Command(goto=next, update={field: value}).
Goto(next, field, value) ==
    /\ pc' = next
    /\ alert' = [alert EXCEPT ![field] = value]
    /\ raisedBy' = raisedBy

OrchInit ==
    /\ pc = "cluster_logs_node"
    /\ alert \in {NewAlert(m) : m \in LogMessages}
    /\ trace = <<>>
    /\ llmLog = <<>>
    /\ raisedBy = NONE

cluster_logs_node ==
    /\ pc = "cluster_logs_node"
    /\ trace' = Append(trace, "cluster_logs_node")
    /\ llmLog' = llmLog
    /\ \E r \in ClusterLabels \cup {ClusterModelError} :
         LET log_cluster == infer_cluster_log(r) IN
         IF log_cluster.ok
         THEN Goto("summarize_log_node", "logCluster", log_cluster.value)
         ELSE Raise("cluster_logs_node", log_cluster.err)
    /\ UNCHANGED notOrch

summarize_log_node ==
    /\ pc = "summarize_log_node"
    /\ trace' = Append(trace, "summarize_log_node")
    /\ \E reply \in SummaryReplies :
         LET log_summary == summarize_log(reply) IN
         /\ llmLog' = Append(llmLog, [step |-> "summarize", reply |-> reply])
         /\ IF log_summary.ok
            THEN Goto("classify_log_node", "logSummary", log_summary.value)
            ELSE Raise("summarize_log_node", log_summary.err)
    /\ UNCHANGED notOrch

classify_log_node ==
    /\ pc = "classify_log_node"
    /\ trace' = Append(trace, "classify_log_node")
    /\ \E reply \in CategoryReplies :
         LET log_category == classify_log(reply) IN
         /\ llmLog' = Append(llmLog, [step |-> "classify", reply |-> reply])
         /\ IF log_category.ok
            THEN Goto("router_step_by_step_solution_node",
                      "expertClassification", log_category.value)
            ELSE Raise("classify_log_node", log_category.err)
    /\ UNCHANGED notOrch

\* graph.py:70 passes (log_summary, llm): two arguments.
RouterArgsPassed == 2

\* graph.py:72-74: the next node for a router classification.
RouterGoto(classification) ==
    IF classification = "No More Context Needed"
    THEN "suggest_step_by_step_solution_node"
    ELSE "get_more_context_node"

\* graph.py:75: the needMoreContext flag for a router classification.
RouterFlag(classification) ==
    IF classification = "Need More Context" THEN "True" ELSE "False"

router_step_by_step_solution_node ==
    /\ pc = "router_step_by_step_solution_node"
    /\ trace' = Append(trace, "router_step_by_step_solution_node")
    /\ IF ~CallBinds(RouterArgsPassed, RouterParams)
       THEN /\ llmLog' = llmLog
            /\ Raise("router_step_by_step_solution_node", TypeError)
       ELSE \E reply \in RouterReplies :
              LET classification == router_step_by_step_solution(reply) IN
              /\ llmLog' = Append(llmLog, [step |-> "route", reply |-> reply])
              /\ IF classification.ok
                 THEN Goto(RouterGoto(classification.value), "needMoreContext",
                           RouterFlag(classification.value))
                 ELSE Raise("router_step_by_step_solution_node",
                            classification.err)
    /\ UNCHANGED notOrch

OrchNext ==
    \/ cluster_logs_node
    \/ summarize_log_node
    \/ classify_log_node
    \/ router_step_by_step_solution_node

\* One alert through the orchestrator graph.
Init ==
    OrchInit /\ QueryIdle /\ CtxIdle /\ MergeIdle /\ LokiIdle /\ StoreIdle
        /\ ClusterIdle
        /\ BatchIdle
        /\ ArtifactIdle
        /\ LookupIdle
        /\ ExecIdle
        /\ ToolIdle

Next == OrchNext

Spec == Init /\ [][Next]_vars

OrchIdle ==
    /\ pc = "idle"
    /\ alert = NewAlert("log_a")
    /\ trace = <<>>
    /\ llmLog = <<>>
    /\ raisedBy = NONE

\* The query pipeline on its own: one query() call on a loaded index.
QueryNext == QueryCall

SpecQueryInit ==
    QueryInit /\ OrchIdle /\ CtxIdle /\ MergeIdle /\ LokiIdle /\ StoreIdle
        /\ ClusterIdle
        /\ BatchIdle
        /\ ArtifactIdle
        /\ LookupIdle
        /\ ExecIdle
        /\ ToolIdle

SpecQuery == SpecQueryInit /\ [][QueryNext]_vars

\* The context sub-graph on its own: one run of more_context_agent_graph.
CtxNext ==
    \/ cheat_sheet_context_node
    \/ loki_router_node

SpecContextInit ==
    CtxInit /\ OrchIdle /\ QueryIdle /\ MergeIdle /\ LokiIdle /\ StoreIdle
        /\ ClusterIdle
        /\ BatchIdle
        /\ ArtifactIdle
        /\ LookupIdle
        /\ ExecIdle
        /\ ToolIdle

SpecContext == SpecContextInit /\ [][CtxNext]_vars

\* The composition of the solution context, on every pair of context texts.
MergeNext == MergeCall

SpecMergeInit ==
    MergeInit /\ OrchIdle /\ QueryIdle /\ CtxIdle /\ LokiIdle /\ StoreIdle
        /\ ClusterIdle
        /\ BatchIdle
        /\ ArtifactIdle
        /\ LookupIdle
        /\ ExecIdle
        /\ ToolIdle

SpecMerge == SpecMergeInit /\ [][MergeNext]_vars

\* One knowledge base built, saved, loaded and queried.
BuildNext ==
    \/ build_rag_index
    \/ save_index_write_index
    \/ save_index_write_metadata
    \/ load_index_read_index
    \/ load_index_read_metadata
    \/ serve_query

SpecBuildInit ==
    BuildInit /\ OrchIdle /\ QueryIdle /\ CtxIdle /\ MergeIdle /\ LokiIdle
        /\ ClusterIdle
        /\ BatchIdle
        /\ ArtifactIdle
        /\ LookupIdle
        /\ ExecIdle
        /\ ToolIdle

SpecBuild == SpecBuildInit /\ [][BuildNext]_vars

\* The index files under rebuilds, interrupted saves, loads and restarts.
StoreNext ==
    \/ build_rag_index
    \/ reindex
    \/ save_index_write_index
    \/ save_index_write_metadata
    \/ save_index_interrupted
    \/ load_index_read_index
    \/ load_index_read_metadata
    \/ serve_query
    \/ restart_pipeline
    \/ edit_corpus
    \/ reconfigure_model

SpecStoreInit ==
    StoreInit /\ OrchIdle /\ QueryIdle /\ CtxIdle /\ MergeIdle /\ LokiIdle
        /\ ClusterIdle
        /\ BatchIdle
        /\ ArtifactIdle
        /\ LookupIdle
        /\ ExecIdle
        /\ ToolIdle

SpecStore == SpecStoreInit /\ [][StoreNext]_vars

\* One call of the clustering stage, for every input and configuration.
ClusterNext ==
    \/ train_embed_and_cluster_logs
    \/ cluster_logs

SpecClusterInit ==
    ClusterInit /\ OrchIdle /\ QueryIdle /\ CtxIdle /\ MergeIdle /\ LokiIdle
        /\ StoreIdle
        /\ BatchIdle
        /\ ArtifactIdle
        /\ LookupIdle
        /\ ExecIdle
        /\ ToolIdle

SpecCluster == SpecClusterInit /\ [][ClusterNext]_vars

\* One run of the batch pipeline over every batch of alerts.
BatchNext ==
    \/ cluster_alerts
    \/ generate_log_summaries
    \/ generate_log_categories
    \/ generate_step_by_step_solutions
    \/ update_alerts
    \/ llm_call_returns
    \/ _add_or_update_alert
    \/ pipeline_returns

SpecBatchInit ==
    BatchInit /\ OrchIdle /\ QueryIdle /\ CtxIdle /\ MergeIdle /\ LokiIdle
        /\ StoreIdle /\ ClusterIdle
        /\ ArtifactIdle
        /\ LookupIdle
        /\ ExecIdle
        /\ ToolIdle

SpecBatch == SpecBatchInit /\ [][BatchNext]_vars

\* Refits and predicts on the persisted cluster model, interleaved.
ArtifactNext ==
    \/ joblib_dump_open
    \/ joblib_dump_write
    \/ upload_model_to_minio
    \/ joblib_load_open
    \/ joblib_load_read

SpecArtifactInit ==
    ArtifactInit /\ OrchIdle /\ QueryIdle /\ CtxIdle /\ MergeIdle /\ LokiIdle
        /\ StoreIdle /\ ClusterIdle /\ BatchIdle
        /\ LookupIdle
        /\ ExecIdle
        /\ ToolIdle

SpecArtifact == SpecArtifactInit /\ [][ArtifactNext]_vars

\* The knowledge lookups of one process, one after the other.
LookupNext == lookup_call

SpecLookupInit ==
    LookupInit /\ OrchIdle /\ QueryIdle /\ CtxIdle /\ MergeIdle
        /\ LokiIdle /\ StoreIdle /\ ClusterIdle /\ BatchIdle /\ ArtifactIdle
        /\ ExecIdle
        /\ ToolIdle

SpecLookup == SpecLookupInit /\ [][LookupNext]_vars

\* The live-log path on its own, from its first node.
ExecNext ==
    \/ loki_execute_query_node
    \/ agent_query_logs
    \/ loki_execute_query_node_update

SpecExecInit ==
    ExecInit /\ OrchIdle /\ QueryIdle /\ CtxIdle /\ MergeIdle
        /\ LokiIdle /\ StoreIdle /\ ClusterIdle /\ BatchIdle /\ ArtifactIdle
        /\ LookupIdle
        /\ ToolIdle

SpecExec == SpecExecInit /\ [][ExecNext]_vars

ToolNext ==
    \/ call_get_logs_by_file_name
    \/ call_search_logs_by_text
    \/ call_get_log_lines_above

SpecToolInit ==
    ToolInit /\ OrchIdle /\ QueryIdle /\ CtxIdle /\ MergeIdle
        /\ LokiIdle /\ StoreIdle /\ ClusterIdle /\ BatchIdle /\ ArtifactIdle
        /\ LookupIdle /\ ExecIdle

SpecTool == SpecToolInit /\ [][ToolNext]_vars

LokiNext == identify_missing_log_data_node

SpecLokiInit ==
    LokiInit /\ OrchIdle /\ QueryIdle /\ CtxIdle /\ MergeIdle /\ StoreIdle
        /\ ClusterIdle
        /\ BatchIdle
        /\ ArtifactIdle
        /\ LookupIdle
        /\ ExecIdle
        /\ ToolIdle

SpecLoki == SpecLokiInit /\ [][LokiNext]_vars

-----------------------------------------------------------------------------
(* Properties of the orchestrator run.                                     *)

IsPrefix(s, t) == Len(s) <= Len(t) /\ SubSeq(t, 1, Len(s)) = s

InTrace(node) == \E i \in DOMAIN trace : trace[i] = node

RunOver == pc \in {"END", "raised"}

StagesDirect ==
    << "cluster_logs_node", "summarize_log_node", "classify_log_node",
       "router_step_by_step_solution_node",
       "suggest_step_by_step_solution_node" >>

StagesViaContext ==
    << "cluster_logs_node", "summarize_log_node", "classify_log_node",
       "router_step_by_step_solution_node", "get_more_context_node",
       "suggest_step_by_step_solution_node" >>

\* The replies the model gave to the calls of one step.
RepliesOf(step) == {i \in DOMAIN llmLog : llmLog[i].step = step}

\* The run was ended by a failure of something outside the orchestrator: a
\* language-model call or the persisted cluster model.
EndedByExternalFailure ==
    pc = "raised" /\ raisedBy.err \in LlmFailures \cup {ClusterModelError}

\* C1: in every run the stages execute one at a time in the order cluster,
\* summarize, classify, route, (context gathering), solution synthesis, end:
\* the stages run so far are a prefix of one of the two orders (so none runs
\* twice or out of turn), and a run that is over has run one of the two
\* orders in full, solution synthesis last. Runs ended by an external failure
\* are left out here (they are C2's subject), which only weakens the claim.
C1_StagesInOrderToSolution ==
    /\ IsPrefix(trace, StagesDirect) \/ IsPrefix(trace, StagesViaContext)
    /\ (RunOver /\ ~EndedByExternalFailure)
          => trace \in {StagesDirect, StagesViaContext}

\* C2: a language-model call that fails in transport or validation does not
\* abort the run: no run is ended by such a failure, it goes on to the
\* terminal state with the failing step's output left empty.
C2_LlmFailureDoesNotAbort ==
    pc = "raised" => raisedBy.err \notin LlmFailures

\* C3: when every classification reply is outside the enumeration, the run
\* still ends in the terminal solved state and the alert's category is the
\* catch-all category.
C3_InvalidCategoryFallsBack ==
    ( /\ RunOver
      /\ RepliesOf("classify") # {}
      /\ \A i \in RepliesOf("classify") : llmLog[i].reply \in BadCategories )
    => (pc = "END" /\ alert.expertClassification = CatchAllCategory)

\* C4: in every reachable state the alert's expert category is unset or one
\* of the eight values of the enumeration.
C4_CategoryInEnumeration ==
    alert.expertClassification \in Categories \cup {NONE}

\* C4 witness: the classification step ran on a reply outside the
\* enumeration and the alert's category is still unset.
C4_Witness ==
    /\ InTrace("classify_log_node")
    /\ \E i \in RepliesOf("classify") : llmLog[i].reply \in BadCategories
    /\ alert.expertClassification = NONE

\* C8: at the end of every run the need-more-context flag is true exactly
\* when the run passed through context gathering and false exactly when the
\* router sent the run straight to solution synthesis, and a run in which the
\* router ran took one of these two routes.
C8_FlagMatchesRoute ==
    RunOver =>
      /\ (alert.needMoreContext = "True") <=> InTrace("get_more_context_node")
      /\ (alert.needMoreContext = "False") <=>
            ( /\ InTrace("suggest_step_by_step_solution_node")
              /\ ~InTrace("get_more_context_node") )
      /\ InTrace("router_step_by_step_solution_node")
            => alert.needMoreContext \in {"True", "False"}


-----------------------------------------------------------------------------
(* Properties of the composition of the solution context.                  *)

Occurs(text, line) == \E i \in DOMAIN text : text[i] = line

\* The first position of a line in a text (the line occurs).
FirstAt(text, line) ==
    CHOOSE i \in DOMAIN text :
        text[i] = line /\ \A j \in 1 .. (i - 1) : text[j] # line

BothSourcesNonEmpty ==
    /\ mPc = "merged"
    /\ Truthy(mIn.loki_context)
    /\ Truthy(mIn.cheat_sheet_context)

-----------------------------------------------------------------------------
(* Properties of the live-log path.                                        *)

\* C6: a step of the live-log path that fails (the model call does not
\* answer, its answer is rejected, the alert has no log stream) does not end
\* the run with an exception: the run goes on to solution synthesis.
C6_LiveLogFailureDoesNotBlock == lPc # "raised"

-----------------------------------------------------------------------------
(* Properties of the context sub-graph.                                    *)

CtxInTrace(node) == \E i \in DOMAIN cTrace : cTrace[i] = node

CtxRunOver == cPc \in {"END", "raised", "loki_sub_agent"}

LiveLogStepEntered ==
    cPc = "loki_sub_agent" \/ CtxInTrace("loki_sub_agent")

\* C7: every run of the context sub-graph executes the knowledge-base lookup,
\* and executes it first; the live-log step is entered only in runs whose
\* router decision was that more context is needed.
C7_LookupFirstLiveLogsOnlyOnNeed ==
    /\ cTrace # <<>> => cTrace[1] = "cheat_sheet_context_node"
    /\ CtxRunOver => CtxInTrace("cheat_sheet_context_node")
    /\ LiveLogStepEntered => cDecision = NeedMore

C7_Witness ==
    /\ cPc = "END"
    /\ cTrace = <<"cheat_sheet_context_node", "loki_router_node">>
    /\ cDecision = NoNeedMore
    /\ cState.cheat_sheet_context.type = "str"

NoCandidateClears(response) ==
    \A i \in DOMAIN response.candidates :
        response.candidates[i].similarity_score
            < response.metadata.similarity_threshold

\* C10: a knowledge-base query in which no candidate reaches the threshold
\* returns an empty result and does not raise, and the lookup then yields its
\* normal no-match text and hands over to the router.
C10_NoMatchIsEmptyResult ==
    (cLookup.queried /\ NoCandidateClears(cLookup.response)) =>
        /\ cLookup.response.results = <<>>
        /\ cState.cheat_sheet_context = PyStr(NoMatchText)
        /\ cTrace = <<"cheat_sheet_context_node">> => cPc = "loki_router_node"

C10_Witness ==
    /\ cLookup.queried
    /\ cLookup.response.candidates # <<>>
    /\ NoCandidateClears(cLookup.response)
    /\ cLookup.response.results = <<>>
    /\ cState.cheat_sheet_context = PyStr(NoMatchText)

-----------------------------------------------------------------------------
(* Properties of the query pipeline.                                       *)

\* The result limit of the call: the top_n passed, the default when omitted.
RequestedTopN ==
    IF qArgs.top_n = Omitted THEN DefaultTopN ELSE qArgs.top_n[1]

Descending(results) ==
    \A i \in DOMAIN results : \A j \in DOMAIN results :
        i < j => results[i].similarity_score >= results[j].similarity_score

\* C9: a query with result limit N returns at most N results, each with a
\* similarity at or above the threshold in force, by decreasing similarity:
\* the first N of the candidates of the top-K search that reach the threshold.
C9_AtMostNAboveThresholdSorted ==
    qPc = "returned" =>
        LET results == qResponse.results
            threshold == qResponse.metadata.similarity_threshold
            reaches(r) == r.similarity_score >= threshold
            above == SelectSeq(qResponse.candidates, reaches)
            firstN == SubSeq(above, 1,
                             IF RequestedTopN < Len(above)
                             THEN RequestedTopN ELSE Len(above))
        IN /\ Len(results) <= RequestedTopN
           /\ \A i \in DOMAIN results : reaches(results[i])
           /\ Descending(results)
           /\ results = firstN


-----------------------------------------------------------------------------
(* Properties of the index build, save and load.                           *)

Built == writer.pc \in {"built", "index_written", "saved"}

IdsOf(store) == {store[i].error_id : i \in DOMAIN store}

HasNeither(entry) == entry.description = "" /\ entry.symptoms = ""

HasOne(entry) == entry.description # "" \/ entry.symptoms # ""

\* C11: after a build, an entry with neither a description nor symptoms is
\* in neither the index nor the entry store; every stored entry has one of
\* the two; the position map is a bijection between the index positions and
\* the stored entries, in build order.
C11_OnlyIndexableEntriesStored ==
    Built =>
        LET e == writer.embedder
            kept == SelectSeq(writer.source, HasOne)
        IN /\ \A i \in DOMAIN writer.source :
                HasNeither(writer.source[i]) =>
                    /\ writer.source[i].error_id \notin IdsOf(e.error_store)
                    /\ \A p \in DOMAIN e.index :
                          e.index[p].text # writer.source[i].error_id
           /\ \A i \in DOMAIN e.error_store : HasOne(e.error_store[i])
           /\ Len(e.index) = Len(e.index_to_error_id)
           /\ Len(e.index) = Len(e.error_store)
           /\ \A p \in DOMAIN e.index :
                /\ e.index[p].text = e.index_to_error_id[p]
                /\ e.error_store[p].error_id = e.index_to_error_id[p]
           /\ DistinctIds(e.error_store)
           /\ \A i \in DOMAIN e.error_store :
                \E j \in DOMAIN kept : kept[j] = e.error_store[i]
           /\ \A i \in DOMAIN e.error_store : \A j \in DOMAIN e.error_store :
                i < j =>
                    \E a \in DOMAIN writer.source :
                    \E b \in DOMAIN writer.source :
                        /\ a < b
                        /\ writer.source[a] = e.error_store[i]
                        /\ writer.source[b] = e.error_store[j]

C11_Witness ==
    /\ Built
    /\ \E i \in DOMAIN writer.source : HasNeither(writer.source[i])
    /\ Len(writer.embedder.index) = 1
    /\ Len(writer.source) = 2

C12_IndexAndMetadataFromOneBuild ==
    loader.pc = "loaded" => loader.index_build = loader.meta_build

\* C14: a served query is embedded by the model that embedded the documents
\* of the loaded index, with the query role marker exactly when they carry
\* the document role marker.
C14_QueryAndDocumentsSameConvention ==
    served.done =>
        \A d \in served.documents :
            /\ d.model = served.query.model
            /\ (served.query.role = "search_query")
                   <=> (d.role = "search_document")

ClusterCallOver == kPc \in {"returned", "raised"}

SupportedAlgorithms == {"dbscan", "meanshift", "agglomerative"}

Unsupported(algorithm) ==
    algorithm = NONE \/ Lower(algorithm) \notin SupportedAlgorithms

FanOutDone == bPc \in {"persisting", "done"}

Clusters == LabelsOf(bLabels)

\* The candidates (or called alerts) that belong to the cluster of a label.
OfCluster(alert_positions, label) ==
    {k \in DOMAIN alert_positions : bLabels[alert_positions[k]] = label}

FailedAlerts ==
    IF \A i \in DOMAIN bAlerts : bAlerts[i].logCluster # NONE
    THEN {i \in DOMAIN bAlerts : bTasks[i].state = "failed"}
    ELSE {i \in DOMAIN bAlerts :
            \E k \in DOMAIN bTasks :
                /\ bTasks[k].state = "failed"
                /\ bLabels[candidate_alerts(bLabels)[k]] = bLabels[i]}

\* C19: when a batch run is over, every alert other than those whose own
\* generation call or commit failed has been persisted.
C19_OneFailureDoesNotAbortBatch ==
    bPc \in {"done", "raised"} =>
        \A i \in DOMAIN bAlerts : i \notin FailedAlerts => i \in bDb

\* C20: the number of language-model calls in flight stays under a bound
\* that the size of the batch does not reach: it is always less than the
\* number of alerts of the largest batch.
C20_InFlightCallsBounded == InFlight < MaxAlerts

\* C18: a predict that runs while a refit writes the persisted model never
\* ends with a half-written model: what its load read is one whole model of
\* one refit.
C18_PredictReadsWholeModel ==
    predict.pc \in {"loaded", "failed"} => IsWholeModel(predict.read)

\* C30: every override passed explicitly to query (top_k, top_n,
\* similarity_threshold) is the value the call uses, 0 included; the
\* configured default is used only for an omitted argument.
C30_ExplicitOverridesUsed ==
    qPc = "returned" =>
        /\ qResponse.metadata.top_k =
              (IF qArgs.top_k = Omitted THEN DefaultTopK
               ELSE qArgs.top_k[1])
        /\ qResponse.metadata.top_n =
              (IF qArgs.top_n = Omitted THEN DefaultTopN
               ELSE qArgs.top_n[1])
        /\ qResponse.metadata.similarity_threshold =
              (IF qArgs.similarity_threshold = Omitted THEN DefaultThreshold
               ELSE qArgs.similarity_threshold[1])

\* C25: a run of the context sub-graph whose router decided that more
\* context is needed from the log store does not end before the live-log
\* sub-agent step has run.
C25_NeedMoreRunsLiveLogStep ==
    (cPc = "END" /\ cDecision = NeedMore) => CtxInTrace("loki_sub_agent")

\* C23: over any sequence of knowledge lookups in one process the index load
\* is attempted at most once; after the first call the enabled flag is set;
\* a loaded pipeline is the one every later call uses; and once the flag is
\* False every call returns empty context, without raising.
C23_IndexLoadedAtMostOnce ==
    /\ lkLoads <= 1
    /\ lkCalls >= 1 => lkRag._rag_enabled # "None"
    /\ ~lkOut.raised
    /\ lkOut.used_pipeline <=>
          (lkCalls >= 1 /\ lkRag._rag_enabled = "True" /\ lkLoads = 1)
    /\ (lkCalls >= 1 /\ lkRag._rag_enabled = "False") =>
          lkOut.context = <<>>

C23_Witness ==
    /\ lkCalls = MaxLookups
    /\ lkLoads = 1
    /\ lkRag._rag_enabled = "False"
    /\ lkOut.context = <<>>

\* The field each orchestrator node writes with its Command update.
OutputField(node) ==
    CASE node = "cluster_logs_node" -> "logCluster"
      [] node = "summarize_log_node" -> "logSummary"
      [] node = "classify_log_node" -> "expertClassification"
      [] node = "router_step_by_step_solution_node" -> "needMoreContext"
      [] node = "get_more_context_node" -> "contextForStepByStepSolution"
      [] node = "suggest_step_by_step_solution_node" -> "stepByStepSolution"
      [] OTHER -> NONE

\* C29: a step of the orchestrator changes no field of the alert other than
\* the output field of the node that ran; so the raw log body, the timestamp
\* and the labels keep the values they had at the start of the run.
C29_StepChangesOnlyItsOutputField ==
    [][\A f \in DOMAIN alert :
          f # OutputField(pc) => alert'[f] = alert[f]]_vars

C29_Witness ==
    /\ pc = "raised"
    /\ Len(trace) = 4
    /\ alert.logCluster # NONE
    /\ alert.logSummary # "No summary available"
    /\ alert.expertClassification # NONE
    /\ alert.logMessage \in LogMessages
    /\ alert.logTimestamp = "now"
    /\ alert.labels = "{}"

-----------------------------------------------------------------------------
(* The log-query agent and the live-log query step.                        *)

\* C24: for every request the log-query agent handles, exactly one tool is
\* invoked, exactly once. The executor's single iteration runs every tool
\* call the model's reply carries, and a reply can carry none or several.
C24_ExactlyOneToolCall ==
    ePc = "build_context" => Len(eCalls) = 1

\* C28: when the state holds a non-empty live-log context before the query
\* step, the context stored after the step still starts with that text,
\* whether the query returned logs, returned none, or raised.
C28_EarlierLiveLogContextKept ==
    (ePc = "END" /\ Truthy(eEarlier))
        => /\ eState.additionalContextFromLoki.type = "str"
           /\ IsPrefix(eEarlier.v, eState.additionalContextFromLoki.v)

-----------------------------------------------------------------------------
(* The log-query tools.                                                    *)

LinesAboveReturned == tPc = "returned" /\ tCall.tool = "get_log_lines_above"

\* The fetched window in chronological order, and the positions in it of the
\* lines that contain the target message.
FetchedLines == Reversed(tCall.context_data.logs)
TargetPositions ==
    {i \in DOMAIN FetchedLines :
        Contains(tArgs.log_message, FetchedLines[i].message)}

\* C21: when the fetched lines, in chronological order, hold the target at
\* position p, a request for n lines above returns exactly the lines at
\* positions max(first, p - n) .. p in that order, the target last.
C21_WindowIsLinesUpToTarget ==
    (/\ LinesAboveReturned
     /\ tCall.context_data.status = "success"
     /\ TargetPositions # {})
        => LET p == CHOOSE i \in TargetPositions :
                        \A j \in TargetPositions : i <= j
               n == tArgs.lines_above
               first == IF p - n < 1 THEN 1 ELSE p - n
           IN  /\ tOut.status = "success"
               /\ tOut.logs = SubSeq(FetchedLines, first, p)
               /\ tOut.number_of_logs = p - first + 1
               /\ tOut.logs[Len(tOut.logs)] = FetchedLines[p]

\* C21 witness: a window of n + 1 lines cut out of a longer fetched list.
C21_Witness ==
    /\ LinesAboveReturned
    /\ tOut.status = "success"
    /\ tArgs.lines_above >= 1
    /\ Len(tOut.logs) = tArgs.lines_above + 1
    /\ Len(FetchedLines) > Len(tOut.logs)
    /\ TargetPositions = {Len(FetchedLines)}

\* The conditions under which get_log_lines_above has no window to return.
TargetNotFoundByStep1 == tCall.target_result.logs = <<>>
TimestampUnparsable ==
    /\ tCall.target_result.logs # <<>>
    /\ tCall.target_result.logs[1].timestamp = UnknownTimestamp
WindowQueryFailed ==
    /\ ~TargetNotFoundByStep1 /\ ~TimestampUnparsable
    /\ \/ tCall.context_data.status # "success"
       \/ tCall.context_data.logs = <<>>
       \/ tCall.mcp[2] # "json"
TargetAbsentFromWindow ==
    /\ ~TargetNotFoundByStep1 /\ ~TimestampUnparsable
    /\ TargetPositions = {}

\* C22: get_log_lines_above returns status error, zero count and no entries
\* whenever step 1 finds no line, the timestamp cannot be parsed, the window
\* query fails or returns no lines, or the target is not in the window.
C22_NoWindowIsAnError ==
    (/\ LinesAboveReturned
     /\ \/ TargetNotFoundByStep1
        \/ TimestampUnparsable
        \/ WindowQueryFailed
        \/ TargetAbsentFromWindow)
        => tOut = ToolError

\* C26: when the MCP call fails or the store reports an error, the
\* by-file-name and by-text tools return status error, zero count and no
\* entries.
C26_StoreErrorIsAnErrorResult ==
    (/\ tPc = "returned"
     /\ tCall.tool \in {"get_logs_by_file_name", "search_logs_by_text"}
     /\ tCall.mcp # <<"json">>)
        => tOut = ToolError

\* C27: when the store answered both queries, the window
\* get_log_lines_above returns ends at the line step 1 located.
C27_WindowEndsAtLocatedLine ==
    (/\ LinesAboveReturned
     /\ tCall.mcp = <<"json", "json">>
     /\ tOut.status = "success")
        => tOut.logs[Len(tOut.logs)].no = tCall.target_result.logs[1].no

=============================================================================
